---- MODULE Spec2Model ----
(***************************************************************************)
(* Grid detection and cell segmentation of the Well Connected helper:      *)
(* sampleBackgroundColor, isDifferentFromBackground, filterOutliers and    *)
(* detectGridBounds of image-processing.js, and processImage,              *)
(* normalizeToGrid and renderGrid/saveState of the application script.     *)
(*                                                                         *)
(* Numbers.  The JavaScript code computes in IEEE doubles; the model uses  *)
(* exact integers after scaling:                                           *)
(*   - a brightness b is held as b * 255000 = 299 r + 587 g + 114 b        *)
(*     (LumaScale), so "b < 0.3" is "luma < 76500";                        *)
(*   - a Euclidean distance d is compared through d * d;                   *)
(*   - pixel coordinates of the 4x4 lattice are held in quarter pixels     *)
(*     (Quarter), so gridBounds.width / 4 is an integer.                   *)
(* For the inputs the program can produce no comparison of the code lies   *)
(* within rounding distance of its threshold, so the scaled comparisons    *)
(* give the results of the double comparisons.                             *)
(***************************************************************************)
EXTENDS Integers, Sequences, FiniteSets, TLC

VARIABLES
    pc,             \* position of the processImage invocation
    file,           \* the submitted image (the decoded pixel buffer)
    bgColor,        \* detectGridBounds: result of sampleBackgroundColor
    bgCount,        \* detectGridBounds: background pixels counted per coarse cell
    filledCells,    \* detectGridBounds: coarse cells flagged filled
    cellsToUse,     \* detectGridBounds: cells the box is computed from
    detectedBounds, \* value detectGridBounds resolves to
    gridBounds,     \* processImage: padded box, state.lastGridBounds
    worker,         \* the Tesseract worker of the invocation
    ocr,            \* what the worker answers for each of the 16 rectangles
    i,              \* processImage: loop index over the 16 cells
    cellRects,      \* rectangles handed to worker.recognize so far
    words,          \* processImage: words[] (one entry per cell read)
    tiles,          \* state.tiles
    scratchpad,     \* state.scratchpad
    selectedTiles,  \* state.selectedTiles: keys <<source, index>>
    storage,        \* localStorage[STORAGE_KEY]
    suspended,      \* locals of the processImage invocations awaiting besides
                    \* the one held in the variables above
    statusText,     \* elements.statusText.textContent
    args,           \* arguments of a function called on its own
    ret             \* its return value

detectVars == <<bgColor, bgCount, filledCells, cellsToUse, detectedBounds>>
readVars == <<worker, ocr, i, cellRects, words>>
boardVars == <<tiles, scratchpad, selectedTiles, storage>>
callVars == <<args, ret>>

vars == <<pc, file, detectVars, gridBounds, readVars, boardVars, statusText,
          suspended, callVars>>

NoValue == "none"

Min(a, b) == IF a < b THEN a ELSE b
Max(a, b) == IF a > b THEN a ELSE b
Abs(a) == IF a < 0 THEN -a ELSE a

(***************************************************************************)
(* Program constants                                                       *)
(***************************************************************************)
cellSize == 40
cornerSize == 80
padding == 20
borderPadding == 10
totalCells == 16
LumaScale == 255000
Quarter == 4

(***************************************************************************)
(* Colours and the pixel buffer                                            *)
(***************************************************************************)
Color(r, g, b) == [r |-> r, g |-> g, b |-> b]

\* brightness * LumaScale of a colour: (r*0.299 + g*0.587 + b*0.114) / 255
Luma(c) == 299 * c.r + 587 * c.g + 114 * c.b

\* An image is a width, a height and its pixels: a page colour `bg` with one
\* rectangle [tx0, tx1) x [ty0, ty1) of colour `tile` painted on it.
Pixel(img, x, y) ==
    IF /\ img.tx0 <= x /\ x < img.tx1
       /\ img.ty0 <= y /\ y < img.ty1
    THEN img.tile
    ELSE img.bg

\* Math.round(v / 8) * 8 for an integer v >= 0 (halves round up)
Quantize8(v) == ((v + 4) \div 8) * 8


(***************************************************************************)
(* sampleBackgroundColor                                                   *)
(***************************************************************************)
\* Origin of the n-th corner in scan order (0 top-left, 1 top-right,
\* 2 bottom-left, 3 bottom-right)
CornerX(img, corner) == IF corner % 2 = 1 THEN img.width - cornerSize ELSE 0
CornerY(img, corner) == IF corner >= 2 THEN img.height - cornerSize ELSE 0

\* Iteration n of the three nested loops (corner, dy, dx) visits pixel
\* (SampleX, SampleY)
SampleX(img, n) ==
    CornerX(img, n \div (cornerSize * cornerSize)) + (n % cornerSize)
SampleY(img, n) ==
    CornerY(img, n \div (cornerSize * cornerSize))
        + ((n % (cornerSize * cornerSize)) \div cornerSize)

\* The bounds test x >= 0 && x < width && y >= 0 && y < height
SampleInBounds(img, n) ==
    LET x == SampleX(img, n)
        y == SampleY(img, n)
    IN  x >= 0 /\ x < img.width /\ y >= 0 /\ y < img.height

\* The histogram key `${qr},${qg},${qb}` of a colour, as one number
KeyBase == 1000
ColorKey(c) ==
    (Quantize8(c.r) * KeyBase + Quantize8(c.g)) * KeyBase + Quantize8(c.b)

\* key.split(',').map(Number)
KeyColor(key) ==
    Color(key \div (KeyBase * KeyBase), (key \div KeyBase) % KeyBase, key % KeyBase)

SampleKey(img, n) == ColorKey(Pixel(img, SampleX(img, n), SampleY(img, n)))

\* Map iteration is insertion order: the key first set at the smallest
\* iteration comes first
FirstSeen(img, key) ==
    CHOOSE n \in 0 .. (4 * cornerSize * cornerSize - 1) :
        /\ SampleInBounds(img, n)
        /\ SampleKey(img, n) = key
        /\ \A m \in 0 .. (n - 1) :
              SampleInBounds(img, m) => SampleKey(img, m) # key

\* colorMap after the sampling loops, as the set of its [key, count] entries
ColorMapEntries(img) ==
    LET samples ==
            { n \in 0 .. (4 * cornerSize * cornerSize - 1) : SampleInBounds(img, n) }
        keys == { SampleKey(img, n) : n \in samples }
    IN  { << key, Cardinality({ n \in samples : SampleKey(img, n) = key }) >> :
            key \in keys }

\* DominantColor with "if (count >= maxCount)": the last entry holding the
\* largest count
DominantColor_lastSeen(img) ==
    LET entries == ColorMapEntries(img)
    IN  IF entries = {}
        THEN Color(255, 255, 255)
        ELSE KeyColor((CHOOSE e \in entries :
                \A e2 \in entries \ {e} :
                    \/ e[2] > e2[2]
                    \/ /\ e[2] = e2[2]
                       /\ FirstSeen(img, e[1]) > FirstSeen(img, e2[1]))[1])

\* "if (count > maxCount)" over the entries in insertion order keeps the first
\* entry holding the largest count; white when the map is empty
DominantColor(img) ==
    LET entries == ColorMapEntries(img)
    IN  IF entries = {}
        THEN Color(255, 255, 255)
        ELSE KeyColor((CHOOSE e \in entries :
                \A e2 \in entries \ {e} :
                    \/ e[2] > e2[2]
                    \/ /\ e[2] = e2[2]
                       /\ FirstSeen(img, e[1]) < FirstSeen(img, e2[1]))[1])

\* dominantColor.brightness = (r * 0.299 + g * 0.587 + b * 0.114) / 255
WithBrightness(c) ==
    [r |-> c.r, g |-> c.g, b |-> c.b, brightness |-> Luma(c)]

sampleBackgroundColor(img) == WithBrightness(DominantColor(img))

(***************************************************************************)
(* isDifferentFromBackground                                               *)
(***************************************************************************)
\* A classifier with the medium thresholds for every background
isDifferentFromBackground_fixed(r, g, b, bg) ==
    LET dr == r - bg.r
        dg == g - bg.g
        db == b - bg.b
        distance2 == dr * dr + dg * dg + db * db
        brightnessDiff == Abs(Luma(Color(r, g, b)) - bg.brightness)
    IN  \/ distance2 > 25 * 25
        \/ 100 * brightnessDiff > 10 * LumaScale

\* "distance > threshold" on squares; "brightnessDiff > minBrightnessDiff" on
\* brightness * LumaScale (0.08, 0.1, 0.05 are 20400, 25500, 12750)
isDifferentFromBackground(r, g, b, bg) ==
    LET dr == r - bg.r
        dg == g - bg.g
        db == b - bg.b
        distance2 == dr * dr + dg * dg + db * db
        pixelBrightness == Luma(Color(r, g, b))
        threshold ==
            IF 10 * bg.brightness < 3 * LumaScale THEN 12
            ELSE IF 10 * bg.brightness < 7 * LumaScale THEN 25
            ELSE 20
        brightnessDiff == Abs(pixelBrightness - bg.brightness)
        minBrightnessDiff100 ==
            IF 10 * bg.brightness < 3 * LumaScale THEN 8
            ELSE IF 10 * bg.brightness < 7 * LumaScale THEN 10
            ELSE 5
    IN  \/ distance2 > threshold * threshold
        \/ 100 * brightnessDiff > minBrightnessDiff100 * LumaScale

(***************************************************************************)
(* filterOutliers                                                          *)
(***************************************************************************)
RECURSIVE SumX(_)
SumX(cells) ==
    IF cells = {} THEN 0
    ELSE LET c == CHOOSE c \in cells : TRUE IN c.x + SumX(cells \ {c})

RECURSIVE SumY(_)
SumY(cells) ==
    IF cells = {} THEN 0
    ELSE LET c == CHOOSE c \in cells : TRUE IN c.y + SumY(cells \ {c})

\* cells.length, sumX and sumY: the centre of mass is
\* (sumX / length, sumY / length)
CenterOfMass(cells) ==
    [length |-> Cardinality(cells), sumX |-> SumX(cells), sumY |-> SumY(cells)]

\* length^2 times the squared distance of a cell from the centre of mass
Distance2(center, cell) ==
    LET dx == center.length * cell.x - center.sumX
        dy == center.length * cell.y - center.sumY
    IN  dx * dx + dy * dy

\* distances: the pairs <<cell, scaled squared distance>>
Distances(cells) ==
    LET center == CenterOfMass(cells)
    IN  { << c, Distance2(center, c) >> : c \in cells }

\* distances[Math.floor(length / 2)] of the ascending-sorted distances
MedianDistance2(distances) ==
    LET medianIndex == Cardinality(distances) \div 2
    IN  CHOOSE d \in { e[2] : e \in distances } :
            /\ Cardinality({ e \in distances : e[2] < d }) <= medianIndex
            /\ Cardinality({ e \in distances : e[2] <= d }) > medianIndex

\* The cells whose distance is exactly medianDistance * 2.5 as real numbers.
\* The code compares doubles (the centre, the square roots and the product
\* are rounded), so whether such a cell passes d.distance <= threshold
\* depends on the rounding: both outcomes are kept.
TiedCells(cells) ==
    LET distances == Distances(cells)
        median2 == MedianDistance2(distances)
    IN  { e[1] : e \in { d \in distances : 4 * d[2] = 25 * median2 } }

\* What the rounding can decide for an input: nothing below 10 cells, where
\* no distance is computed
RoundingChoices(cells) ==
    IF Cardinality(cells) < 10 THEN { {} } ELSE SUBSET TiedCells(cells)

\* The cells with distance <= medianDistance * 2.5; keptTies are the tied
\* cells the comparison of doubles lets pass
WithinThreshold(cells, keptTies) ==
    LET distances == Distances(cells)
        median2 == MedianDistance2(distances)
    IN  { e[1] : e \in { d \in distances : 4 * d[2] < 25 * median2 } } \cup keptTies

filterOutliers_noValve(cells, keptTies) ==
    IF Cardinality(cells) = 0 THEN cells
    ELSE IF Cardinality(cells) < 10 THEN cells
    ELSE WithinThreshold(cells, keptTies)

filterOutliers_from5(cells, keptTies) ==
    IF Cardinality(cells) = 0 THEN cells
    ELSE IF Cardinality(cells) < 5 THEN cells
    ELSE LET filtered == WithinThreshold(cells, keptTies)
         IN  IF 10 * Cardinality(filtered) < 6 * Cardinality(cells)
             THEN cells
             ELSE filtered

\* filterOutliers returning nothing when too many cells would go
filterOutliers_emptyValve(cells, keptTies) ==
    IF Cardinality(cells) = 0 THEN cells
    ELSE IF Cardinality(cells) < 10 THEN cells
    ELSE LET filtered == WithinThreshold(cells, keptTies)
         IN  IF 10 * Cardinality(filtered) < 6 * Cardinality(cells)
             THEN {}
             ELSE filtered

filterOutliers(cells, keptTies) ==
    IF Cardinality(cells) = 0 THEN cells
    ELSE IF Cardinality(cells) < 10 THEN cells
    ELSE LET filtered == WithinThreshold(cells, keptTies)
         IN  \* filtered.length < cells.length * 0.6
             IF 10 * Cardinality(filtered) < 6 * Cardinality(cells)
             THEN cells
             ELSE filtered

(***************************************************************************)
(* detectGridBounds: the work done when the image has loaded               *)
(***************************************************************************)
\* Math.ceil(v / cellSize)
CeilDiv(v, d) == (v + d - 1) \div d

gridWOf(img) == CeilDiv(img.width, cellSize)
gridHOf(img) == CeilDiv(img.height, cellSize)

\* Image pixels (x, y) with Math.floor(x / cellSize) = cx, Math.floor(y / cellSize) = cy
CellPixels(img, cx, cy) ==
    (cx * cellSize .. Min(cx * cellSize + cellSize - 1, img.width - 1))
        \X (cy * cellSize .. Min(cy * cellSize + cellSize - 1, img.height - 1))

\* bgCount[cy * gridW + cx] after the pixel loop
bgCountOf(img, bg, cx, cy) ==
    Cardinality({ p \in CellPixels(img, cx, cy) :
        LET c == Pixel(img, p[1], p[2])
        IN  ~isDifferentFromBackground(c.r, c.g, c.b, bg) })

\* bgPixelCount < pixelsPerCell * backgroundThresholdPercent, with
\* pixelsPerCell = cellSize * cellSize and the percentage 0.15 or 0.05
FewBackgroundPixels(bgPixelCount, bg) ==
    LET pixelsPerCell == cellSize * cellSize
        backgroundThresholdPercent100 ==
            IF 10 * bg.brightness > 7 * LumaScale THEN 15 ELSE 5
    IN  100 * bgPixelCount < pixelsPerCell * backgroundThresholdPercent100

\* The coarse lattice: cx in [0, gridW), cy in [0, gridH)
LatticeCells(img) ==
    [x : 0 .. (gridWOf(img) - 1), y : 0 .. (gridHOf(img) - 1)]

MinOf(S) == CHOOSE v \in S : \A u \in S : v <= u
MaxOf(S) == CHOOSE v \in S : \A u \in S : v >= u

\* A fallback that takes the height for the width
FullImageBounds_swapped(img) ==
    [x |-> 0, y |-> 0, width |-> img.height, height |-> img.width,
     imageWidth |-> img.width, imageHeight |-> img.height]

\* The fallback resolution of detectGridBounds
FullImageBounds(img) ==
    [x |-> 0, y |-> 0, width |-> img.width, height |-> img.height,
     imageWidth |-> img.width, imageHeight |-> img.height]

\* The box of the cells, converted back to pixel coordinates
CellsBounds(cells) ==
    LET minX == MinOf({ c.x : c \in cells })
        minY == MinOf({ c.y : c \in cells })
        maxX == MaxOf({ c.x : c \in cells })
        maxY == MaxOf({ c.y : c \in cells })
        pixelMinX == minX * cellSize
        pixelMinY == minY * cellSize
        pixelMaxX == (maxX + 1) * cellSize
        pixelMaxY == (maxY + 1) * cellSize
    IN  [x |-> pixelMinX, y |-> pixelMinY,
         width |-> pixelMaxX - pixelMinX, height |-> pixelMaxY - pixelMinY]

\* filteredCells.length === 0 ? filledCells : filteredCells
ChooseCellsToUse(filled, keptTies) ==
    LET filteredCells == filterOutliers(filled, keptTies)
    IN  IF Cardinality(filteredCells) = 0 THEN filled ELSE filteredCells

(***************************************************************************)
(* processImage: padding of the detected box, the 4x4 lattice              *)
(***************************************************************************)
\* detectedBounds.imageWidth || detectedBounds.width + detectedBounds.x
imageWidthOf(b) ==
    IF "imageWidth" \in DOMAIN b /\ b.imageWidth # 0
    THEN b.imageWidth
    ELSE b.width + b.x

imageHeightOf(b) ==
    IF "imageHeight" \in DOMAIN b /\ b.imageHeight # 0
    THEN b.imageHeight
    ELSE b.height + b.y

PadBounds(b) ==
    LET imageWidth == imageWidthOf(b)
        imageHeight == imageHeightOf(b)
        paddedX == Max(0, b.x - padding)
        paddedY == Max(0, b.y - padding)
        paddedWidth == Min(b.width + (padding * 2), imageWidth - paddedX)
        paddedHeight == Min(b.height + (padding * 2), imageHeight - paddedY)
    IN  [x |-> paddedX, y |-> paddedY,
         width |-> paddedWidth, height |-> paddedHeight,
         imageWidth |-> imageWidth, imageHeight |-> imageHeight]

\* A lattice walked column by column
CellRect_columnMajor(b, n) ==
    LET row == n % 4
        col == n \div 4
        cellWidth == (Quarter * b.width) \div 4
        cellHeight == (Quarter * b.height) \div 4
        cellX == col * cellWidth
        cellY == row * cellHeight
    IN  [index |-> n, row |-> row, col |-> col,
         cellX |-> cellX, cellY |-> cellY,
         cellWidth |-> cellWidth, cellHeight |-> cellHeight,
         left |-> cellX + Quarter * borderPadding,
         top |-> cellY + Quarter * borderPadding,
         width |-> cellWidth - Quarter * (borderPadding * 2),
         height |-> cellHeight - Quarter * (borderPadding * 2)]

\* The rectangle of cell index n inside the cropped grid, in quarter pixels:
\* cellWidth = gridBounds.width / 4 is Quarter * width / 4 = width
CellRect(b, n) ==
    LET row == n \div 4
        col == n % 4
        cellWidth == (Quarter * b.width) \div 4
        cellHeight == (Quarter * b.height) \div 4
        cellX == col * cellWidth
        cellY == row * cellHeight
    IN  [index |-> n, row |-> row, col |-> col,
         cellX |-> cellX, cellY |-> cellY,
         cellWidth |-> cellWidth, cellHeight |-> cellHeight,
         \* shrunk by borderPadding on all sides: the rectangle option
         left |-> cellX + Quarter * borderPadding,
         top |-> cellY + Quarter * borderPadding,
         width |-> cellWidth - Quarter * (borderPadding * 2),
         height |-> cellHeight - Quarter * (borderPadding * 2)]

(***************************************************************************)
(* Text: a string is a sequence of one-character strings                   *)
(***************************************************************************)
LowerCase == << "a", "b", "c", "d", "e", "f", "g", "h", "i", "j", "k", "l", "m",
                "n", "o", "p", "q", "r", "s", "t", "u", "v", "w", "x", "y", "z" >>
UpperCase == << "A", "B", "C", "D", "E", "F", "G", "H", "I", "J", "K", "L", "M",
                "N", "O", "P", "Q", "R", "S", "T", "U", "V", "W", "X", "Y", "Z" >>
DigitChars == << "0", "1", "2", "3", "4", "5", "6", "7", "8", "9" >>

Range(f) == { f[k] : k \in DOMAIN f }

\* Characters \s matches, which trim() strips from both ends
Whitespace == { " ", "\t", "\n" }

\* Characters the pattern /[^a-zA-Z0-9'-\s]/g leaves in place
KeptChar(ch) ==
    \/ ch \in Range(LowerCase) \/ ch \in Range(UpperCase)
    \/ ch \in Range(DigitChars)
    \/ ch \in { "'", "-" }
    \/ ch \in Whitespace

RECURSIVE TrimLeft(_)
TrimLeft(t) ==
    IF t # << >> /\ Head(t) \in Whitespace THEN TrimLeft(Tail(t)) ELSE t

RECURSIVE TrimRight(_)
TrimRight(t) ==
    IF t # << >> /\ t[Len(t)] \in Whitespace
    THEN TrimRight(SubSeq(t, 1, Len(t) - 1))
    ELSE t

\* text.replace(/[^a-zA-Z0-9'-\s]/g, '').trim()
Cleaned(t) == TrimRight(TrimLeft(SelectSeq(t, KeptChar)))

UpperChar(ch) ==
    IF ch \in Range(LowerCase)
    THEN UpperCase[CHOOSE k \in DOMAIN LowerCase : LowerCase[k] = ch]
    ELSE ch

toUpperCase(t) == [k \in DOMAIN t |-> UpperChar(t[k])]

\* CleanAll with every non-empty cleaned text accepted
RECURSIVE CleanAll_keepShort(_)
CleanAll_keepShort(texts) ==
    IF texts = << >> THEN << >>
    ELSE LET cleaned == Cleaned(Head(texts))
         IN  (IF Len(cleaned) >= 1 THEN << toUpperCase(cleaned) >> ELSE << >>)
                 \o CleanAll_keepShort(Tail(texts))

\* cleaned.length >= 2 ? [cleaned.toUpperCase()] : []
RECURSIVE CleanAll(_)
CleanAll(texts) ==
    IF texts = << >> THEN << >>
    ELSE LET cleaned == Cleaned(Head(texts))
         IN  (IF Len(cleaned) >= 2 THEN << toUpperCase(cleaned) >> ELSE << >>)
                 \o CleanAll(Tail(texts))

\* parts.join(' ')
RECURSIVE Join(_)
Join(parts) ==
    IF parts = << >> THEN << >>
    ELSE IF Len(parts) = 1 THEN parts[1]
    ELSE parts[1] \o << " " >> \o Join(Tail(parts))

\* The word of one cell from the recognizer's answer: its words, or its lines
\* when no word is usable
CellWord(result) ==
    LET fromWords == CleanAll(result.words)
        cellWords ==
            IF Len(fromWords) = 0 /\ Len(result.lines) > 0
            THEN CleanAll(result.lines)
            ELSE fromWords
    IN  Join(cellWords)

\* words.filter(word => word && word.length >= 2)
ValidWords(ws) == SelectSeq(ws, LAMBDA w : Len(w) >= 2)

\* Decimal digits of n, 0 <= n <= 99
Decimal(n) ==
    IF n < 10 THEN << DigitChars[n + 1] >>
    ELSE << DigitChars[(n \div 10) + 1], DigitChars[(n % 10) + 1] >>

\* `WORD ${n}`
Placeholder(n) == << "W", "O", "R", "D", " " >> \o Decimal(n)

\* while (tiles.length < 16) tiles.push(`WORD ${tiles.length + 1}`)
RECURSIVE PadTo16(_)
PadTo16(ws) ==
    IF Len(ws) < 16 THEN PadTo16(Append(ws, Placeholder(Len(ws) + 1))) ELSE ws

\* normalizeToGrid without words.slice(0, 16)
normalizeToGrid_noSlice(ws) ==
    LET padded == PadTo16(ws)
    IN  [k \in 1 .. Len(padded) |->
            [id |-> k - 1, word |-> padded[k], draftColor |-> "null"]]

\* words.slice(0, 16), the padding loop and tiles.map
normalizeToGrid(ws) ==
    LET padded == PadTo16(SubSeq(ws, 1, Min(Len(ws), 16)))
    IN  [k \in 1 .. Len(padded) |->
            [id |-> k - 1, word |-> padded[k], draftColor |-> "null"]]

(***************************************************************************)
(* extractGridWords and groupIntoRows. Word centres are kept in half       *)
(* pixels: centerX is x0 + x1 where the code has (x0 + x1) / 2.            *)
(***************************************************************************)
\* s with w put behind the last element whose field is <= that of w
RECURSIVE InsertSorted(_, _, _)
InsertSorted(s, w, field) ==
    IF s = << >> THEN << w >>
    ELSE IF s[Len(s)][field] <= w[field] THEN Append(s, w)
    ELSE Append(InsertSorted(SubSeq(s, 1, Len(s) - 1), w, field), s[Len(s)])

\* [...s].sort((a, b) => a[field] - b[field]): ascending, equal elements in
\* their order in s (Array.prototype.sort is stable)
RECURSIVE SortedBy(_, _)
SortedBy(s, field) ==
    IF s = << >> THEN << >>
    ELSE InsertSorted(SortedBy(SubSeq(s, 1, Len(s) - 1), field), s[Len(s)], field)

\* Math.abs(word.centerY - prevWord.centerY) < prevWord.height * 0.8
SameRow(prevWord, word) ==
    5 * Abs(word.centerY - prevWord.centerY) < 8 * prevWord.height

\* The loop of groupIntoRows from sorted[k] on: rows are the rows pushed so
\* far, currentRow the row being filled
RECURSIVE GroupFrom(_, _, _, _)
GroupFrom(sorted, k, rows, currentRow) ==
    IF k > Len(sorted) THEN Append(rows, currentRow)
    ELSE IF SameRow(sorted[k - 1], sorted[k])
         THEN GroupFrom(sorted, k + 1, rows, Append(currentRow, sorted[k]))
         ELSE GroupFrom(sorted, k + 1, Append(rows, currentRow), << sorted[k] >>)

groupIntoRows_unsortedFirst(ws) ==
    IF Len(ws) = 0 THEN << >>
    ELSE LET sorted == SortedBy(ws, "centerY")
         IN  GroupFrom(sorted, 2, << >>, << ws[1] >>)

groupIntoRows(ws) ==
    IF Len(ws) = 0 THEN << >>
    ELSE LET sorted == SortedBy(ws, "centerY")
         IN  GroupFrom(sorted, 2, << >>, << sorted[1] >>)

\* All words of all lines of the recognizer's data, in iteration order
RECURSIVE LineWords(_)
LineWords(lines) ==
    IF lines = << >> THEN << >> ELSE Head(lines).words \o LineWords(Tail(lines))

\* text.length >= 2 && word.bbox
Usable(word) == Len(Cleaned(word.text)) >= 2 /\ "bbox" \in DOMAIN word

\* The inGrid test on the word's centre, borders included
InGrid(word, b) ==
    /\ word.bbox.x0 + word.bbox.x1 >= 2 * b.x
    /\ word.bbox.x0 + word.bbox.x1 <= 2 * (b.x + b.width)
    /\ word.bbox.y0 + word.bbox.y1 >= 2 * b.y
    /\ word.bbox.y0 + word.bbox.y1 <= 2 * (b.y + b.height)

\* The entry pushed to allDetectedWords
DetectedWord(word) ==
    [text |-> toUpperCase(Cleaned(word.text)),
     centerX |-> word.bbox.x0 + word.bbox.x1,
     centerY |-> word.bbox.y0 + word.bbox.y1,
     bbox |-> word.bbox]

\* The entry pushed to allWords
GridWord(word) ==
    [text |-> toUpperCase(Cleaned(word.text)),
     bbox |-> word.bbox,
     confidence |-> word.confidence,
     centerY |-> word.bbox.y0 + word.bbox.y1,
     centerX |-> word.bbox.x0 + word.bbox.x1,
     height |-> word.bbox.y1 - word.bbox.y0]

RECURSIVE CollectDetected(_)
CollectDetected(ws) ==
    IF ws = << >> THEN << >>
    ELSE (IF Usable(Head(ws)) THEN << DetectedWord(Head(ws)) >> ELSE << >>)
             \o CollectDetected(Tail(ws))

RECURSIVE CollectInGrid(_, _)
CollectInGrid(ws, b) ==
    IF ws = << >> THEN << >>
    ELSE (IF Usable(Head(ws)) /\ InGrid(Head(ws), b)
          THEN << GridWord(Head(ws)) >> ELSE << >>)
             \o CollectInGrid(Tail(ws), b)

\* gridWords.push(...row.map(w => w.text)) for every row, each row sorted
\* by centerX
RECURSIVE RowTexts(_)
RowTexts(rows) ==
    IF rows = << >> THEN << >>
    ELSE LET row == SortedBy(Head(rows), "centerX")
         IN  [k \in 1 .. Len(row) |-> row[k].text] \o RowTexts(Tail(rows))

extractGridWords_inputOrder(ocrData, b) ==
    LET allWords == CollectInGrid(LineWords(ocrData.lines), b)
        gridWords == [k \in 1 .. Len(allWords) |-> allWords[k].text]
    IN  [detectedWords |-> CollectDetected(LineWords(ocrData.lines)),
         value |-> SubSeq(gridWords, 1, Min(Len(gridWords), 16))]

\* The returned words (value) and what is stored in state.detectedWords
extractGridWords(ocrData, b) ==
    LET allWords == CollectInGrid(LineWords(ocrData.lines), b)
        gridWords == RowTexts(groupIntoRows(allWords))
    IN  [detectedWords |-> CollectDetected(LineWords(ocrData.lines)),
         value |-> IF Len(allWords) = 0 THEN << >>
                   ELSE SubSeq(gridWords, 1, Min(Len(gridWords), 16))]

\* null in a slot of state.tiles or state.scratchpad, and in JSON text
Null == [null |-> TRUE]
JsonNull == [json |-> "null"]

\* JSON.stringify and JSON.parse of an array of tiles and nulls
Stringify(slots) ==
    [k \in DOMAIN slots |-> IF slots[k] = Null THEN JsonNull ELSE slots[k]]
Parse(text) ==
    [k \in DOMAIN text |-> IF text[k] = JsonNull THEN Null ELSE text[k]]

\* JSON.stringify({tiles, scratchpad}) as stored by saveState
\* saveState writing the grid alone
SavedState_tilesOnly(t, sp) ==
    [tiles |-> Stringify(t), scratchpad |-> [k \in DOMAIN sp |-> JsonNull]]

SavedState(t, sp) == [tiles |-> Stringify(t), scratchpad |-> Stringify(sp)]

(***************************************************************************)
(* Inputs                                                                  *)
(***************************************************************************)
MaxGridW == 3        \* widest image, in coarse cells
MaxGridH == 2        \* tallest image, in coarse cells
MaxDelta == 26       \* largest red/green offset of a classified pixel
MaxDeltaB == 3       \* largest blue offset of a classified pixel
MaxFar == 9          \* largest gap between a cluster and an isolated cell
MaxRowWords == 4     \* most words handed to groupIntoRows
MaxPageRows == 5     \* most rows of 4 words on a recognised page
MaxWords == 17       \* most words handed to normalizeToGrid
MaxSampleW == 3      \* widest image handed to sampleBackgroundColor
MaxSampleH == 2      \* tallest image handed to sampleBackgroundColor

Image(w, h, bg, tile, tx0, ty0, tx1, ty1) ==
    [width |-> w, height |-> h, bg |-> bg, tile |-> tile,
     tx0 |-> tx0, ty0 |-> ty0, tx1 |-> tx1, ty1 |-> ty1]

\* Page colours (light and dark theme) and a tile colour
PageColors == { Color(255, 255, 255), Color(18, 18, 19) }
TileColor == Color(239, 239, 230)

\* Lengths of gw whole cells, or of gw - 1 whole cells and a one-pixel rest
Lengths(maxCells) ==
    { gw * cellSize - cut : gw \in 1 .. maxCells, cut \in { 0, cellSize - 1 } }

\* Rows by which the tile's top edge is lowered below its cell's edge: the
\* cells of its first row then hold 0, 80 and 240 page pixels
Insets == { 0, 2, 6 }

\* Cell spans [c0, c1] of a tile on an axis of n cells
Spans(n) ==
    { sp \in (0 .. 1) \X (0 .. (n - 1)) :
        /\ sp[1] <= sp[2]
        /\ sp[2] \in { sp[1], n - 1 } }

\* Spans that start at the first cell
TopSpans(n) == { sp \in Spans(n) : sp[1] = 0 }

UniformImages ==
    { Image(w, h, c, c, 0, 0, 0, 0) :
        w \in Lengths(MaxGridW), h \in Lengths(MaxGridH), c \in PageColors }

\* Images of MaxGridW x MaxGridH whole cells with one tile on the page
TiledImages ==
    { Image(MaxGridW * cellSize, MaxGridH * cellSize, c, TileColor,
            sx[1] * cellSize, sy[1] * cellSize + inset,
            (sx[2] + 1) * cellSize, (sy[2] + 1) * cellSize) :
        sx \in Spans(MaxGridW), sy \in TopSpans(MaxGridH),
        inset \in Insets, c \in PageColors }

DetectFiles == UniformImages \cup TiledImages

\* Recognizer answers for one rectangle
Text_hi == << "h", "i" >>
Text_word == << "w", "o", "#", "r", "d", "!", "!" >>
Text_a == << "a" >>
Text_go == << " ", "g", "o", "-", "2", " " >>

NoText == [words |-> << >>, lines |-> << >>]
OneWord(t) == [words |-> << t >>, lines |-> << >>]

Text_line == << "i", "t", "'", "s", "\n" >>

\* worker.recognize resolves with data: no text, one word, the word
\* "wo#rd!!", three words of which one is too short, or no usable word and
\* two lines
OcrResults ==
    { NoText,
      OneWord(Text_hi),
      OneWord(Text_word),
      [words |-> << Text_a, Text_word, Text_go >>, lines |-> << >>],
      [words |-> << Text_a >>, lines |-> << Text_line, Text_a >>] }

\* worker.recognize rejects, or its promise never settles
Rejects == [error |-> "recognize failed"]
NeverSettles == [pending |-> TRUE]

OcrOutcomes == OcrResults \cup { Rejects, NeverSettles }

Resolves(outcome) == "words" \in DOMAIN outcome

Cells == 0 .. (totalCells - 1)

\* Outcomes of the 16 recognize calls that differ from a common answer in at
\* most two cells, one of them the last cell
OcrInputs ==
    { [n \in Cells |-> IF n = c1 THEN r1 ELSE IF n = c2 THEN r2 ELSE base] :
        c1 \in Cells, c2 \in { totalCells - 1 },
        r1 \in OcrOutcomes, r2 \in OcrOutcomes,
        base \in { NoText, OneWord(Text_hi) } }

\* An image with the tile in the middle of a 3x3 lattice, one whose lattice
\* has a one-pixel last column, and a plain dark page of 50 x 50 pixels
\* A file of an image type whose content no decoder accepts
UndecodableFile == [type |-> "image/png", decodes |-> FALSE]

Decodes(f) == "width" \in DOMAIN f

PipelineFiles ==
    { Image(3 * cellSize, 3 * cellSize, Color(255, 255, 255), TileColor,
            cellSize, cellSize, 2 * cellSize, 2 * cellSize),
      Image(cellSize + 1, cellSize, Color(18, 18, 19), TileColor,
            0, 0, cellSize, cellSize),
      Image(cellSize + 10, cellSize + 10, Color(18, 18, 19), Color(18, 18, 19),
            0, 0, 0, 0) }

(***************************************************************************)
(* State machine                                                           *)
(***************************************************************************)
EmptyScratchpad == << Null, Null, Null, Null >>

\* localStorage.getItem(STORAGE_KEY) when the key is absent
NoItem == [item |-> "null"]

\* No processImage invocation has started
NoInvocation ==
    /\ file = NoValue
    /\ bgColor = NoValue
    /\ bgCount = << >>
    /\ filledCells = {}
    /\ cellsToUse = {}
    /\ detectedBounds = NoValue
    /\ gridBounds = NoValue
    /\ worker = NoValue
    /\ ocr = NoValue
    /\ i = 0
    /\ cellRects = << >>
    /\ words = << >>
    /\ suspended = << >>
    /\ statusText = ""

Idle ==
    /\ NoInvocation
    /\ tiles = << >>
    /\ scratchpad = EmptyScratchpad
    /\ selectedTiles = {}
    /\ storage = NoItem

Init ==
    /\ Idle
    /\ pc = "idle"
    /\ args = NoValue
    /\ ret = NoValue

\* handleFile -> reader.onload -> processImage(file) up to its first await,
\* detectGridBounds(file)
handleFile(f) ==
    /\ pc = "idle"
    /\ file' = f
    /\ statusText' = "Detecting grid..."
    /\ pc' = "detectGridBounds"
    /\ UNCHANGED <<detectVars, gridBounds, readVars, boardVars, suspended, callVars>>

\* Everything detectGridBounds computes once the image has loaded, one
\* record for each way the rounding can go
DetectRun(img) ==
    LET bg == sampleBackgroundColor(img)
        counts == [cell \in LatticeCells(img) |-> bgCountOf(img, bg, cell.x, cell.y)]
        filled == { cell \in LatticeCells(img) : FewBackgroundPixels(counts[cell], bg) }
    IN  { [bgColor |-> bg, bgCount |-> counts, filledCells |-> filled,
           cellsToUse |-> IF Cardinality(filled) = 0 THEN {}
                          ELSE ChooseCellsToUse(filled, keptTies),
           result |-> IF Cardinality(filled) = 0
                      THEN FullImageBounds(img)
                      ELSE CellsBounds(ChooseCellsToUse(filled, keptTies))] :
          keptTies \in RoundingChoices(filled) }

\* detectGridBounds: img.onload runs the scan and resolves the promise. The
\* image has no onerror handler and the promise no reject: for a file that
\* does not decode nothing runs
detectGridBounds ==
    /\ pc = "detectGridBounds"
    /\ Decodes(file)
    /\ \E run \in DetectRun(file) :
           /\ bgColor' = run.bgColor
           /\ bgCount' = run.bgCount
           /\ filledCells' = run.filledCells
           /\ cellsToUse' = run.cellsToUse
           /\ detectedBounds' = run.result
    /\ pc' = "detected"
    /\ UNCHANGED <<file, gridBounds, readVars, boardVars, suspended, statusText, callVars>>

\* processImage resumes: pads the box, stores it, asks for the crop
padAndCrop ==
    /\ pc = "detected"
    /\ gridBounds' = PadBounds(detectedBounds)
    /\ statusText' = "Cropping image..."
    /\ pc' = "cropImage"
    /\ UNCHANGED <<file, detectVars, readVars, boardVars, suspended, callVars>>

\* cropImage resolved: createWorker('eng') is awaited
createWorker ==
    /\ pc = "cropImage"
    /\ statusText' = "Initializing OCR..."
    /\ pc' = "createWorker"
    /\ UNCHANGED <<file, detectVars, gridBounds, readVars, boardVars, suspended, callVars>>

\* The worker is there (it will give `answers`): the loop starts and awaits
\* worker.recognize for cell 0
startReading(answers) ==
    /\ pc = "createWorker"
    /\ worker' = "active"
    /\ ocr' = answers
    /\ i' = 0
    /\ words' = << >>
    /\ cellRects' = << CellRect(gridBounds, 0) >>
    /\ statusText' = "Reading text..."
    /\ pc' = "recognize"
    /\ UNCHANGED <<file, detectVars, gridBounds, boardVars, suspended, callVars>>

\* worker.recognize resolved for cell i: its word is pushed; the loop goes on
\* to cell i + 1 or leaves and awaits worker.terminate()
recognize ==
    /\ pc = "recognize"
    /\ Resolves(ocr[i])
    /\ words' = Append(words, CellWord(ocr[i]))
    /\ i' = i + 1
    /\ IF i + 1 < totalCells
       THEN /\ cellRects' = Append(cellRects, CellRect(gridBounds, i + 1))
            /\ pc' = "recognize"
       ELSE /\ cellRects' = cellRects
            /\ pc' = "terminate"
    /\ UNCHANGED <<file, detectVars, gridBounds, worker, ocr, boardVars, suspended,
                   statusText, callVars>>

\* worker.recognize rejected for cell i: the await throws into the catch
\* block of processImage, past the loop and worker.terminate()
recognizeRejects ==
    /\ pc = "recognize"
    /\ "error" \in DOMAIN ocr[i]
    /\ statusText' = "Error: recognize failed"
    /\ pc' = "error"
    /\ UNCHANGED <<file, detectVars, gridBounds, readVars, boardVars, suspended, callVars>>

\* extractTiles with the board emptied when no word is left
extractTiles_clearsBoard ==
    /\ pc = "terminate"
    /\ worker' = "terminated"
    /\ LET validWords == ValidWords(words)
       IN  IF Len(validWords) = 0
           THEN /\ statusText' = "Error: No words found."
                /\ pc' = "error"
                /\ tiles' = << >>
                /\ storage' = SavedState(tiles', scratchpad)
           ELSE /\ tiles' = normalizeToGrid(validWords)
                /\ storage' = SavedState(tiles', scratchpad)
                /\ statusText' = "Extracting tiles..."
                /\ pc' = "done"
    /\ UNCHANGED <<file, detectVars, gridBounds, ocr, i, cellRects, words,
                   scratchpad, selectedTiles, suspended, callVars>>

\* worker.terminate() resolved: empty words are filtered out; no word left
\* throws into the catch block, otherwise the tiles are stored and
\* renderGrid saves the state
extractTiles ==
    /\ pc = "terminate"
    /\ worker' = "terminated"
    /\ LET validWords == ValidWords(words)
       IN  IF Len(validWords) = 0
           THEN /\ statusText' = "Error: No words found."
                /\ pc' = "error"
                /\ UNCHANGED <<tiles, storage>>
           ELSE /\ tiles' = normalizeToGrid(validWords)
                /\ storage' = SavedState(tiles', scratchpad)
                /\ statusText' = "Extracting tiles..."
                /\ pc' = "done"
    /\ UNCHANGED <<file, detectVars, gridBounds, ocr, i, cellRects, words,
                   scratchpad, selectedTiles, suspended, callVars>>

Next ==
    \/ \E f \in PipelineFiles \cup { UndecodableFile } : handleFile(f)
    \/ detectGridBounds
    \/ padAndCrop
    \/ createWorker
    \/ \E answers \in OcrInputs : startReading(answers)
    \/ recognize
    \/ recognizeRejects
    \/ extractTiles

Spec == Init /\ [][Next]_vars

\* Grid detection and padding alone, over many images
NextDetect ==
    \/ \E f \in DetectFiles : handleFile(f)
    \/ detectGridBounds
    \/ padAndCrop

SpecDetect == Init /\ [][NextDetect]_vars

\* Detection and padding over the images of whole cells with a tile
NextTiled ==
    \/ \E f \in TiledImages : handleFile(f)
    \/ detectGridBounds
    \/ padAndCrop

SpecTiled == Init /\ [][NextTiled]_vars

(***************************************************************************)
(* Submissions after the first, manual entry and the saved state           *)
(***************************************************************************)
\* The locals of the invocation held in the variables
Locals ==
    [pc |-> pc, file |-> file, bgColor |-> bgColor, bgCount |-> bgCount,
     filledCells |-> filledCells, cellsToUse |-> cellsToUse,
     detectedBounds |-> detectedBounds, gridBounds |-> gridBounds,
     worker |-> worker, ocr |-> ocr, i |-> i, cellRects |-> cellRects,
     words |-> words]

\* processImage has returned, or its fallback has been answered
Finished(position) == position \in { "done", "error", "entered", "reset" }

\* handleFile when an invocation of processImage exists already: nothing
\* stops the earlier one; if it awaits, it goes on beside the new one
handleFileAgain(f) ==
    /\ pc # "idle"
    /\ suspended' = IF Finished(pc) THEN suspended ELSE Append(suspended, Locals)
    /\ file' = f
    /\ statusText' = "Detecting grid..."
    /\ pc' = "detectGridBounds"
    /\ bgColor' = NoValue
    /\ bgCount' = << >>
    /\ filledCells' = {}
    /\ cellsToUse' = {}
    /\ detectedBounds' = NoValue
    /\ gridBounds' = NoValue
    /\ worker' = NoValue
    /\ ocr' = NoValue
    /\ i' = 0
    /\ cellRects' = << >>
    /\ words' = << >>
    /\ UNCHANGED <<boardVars, callVars>>

\* The event loop turns to the k-th other invocation: its locals come into
\* the variables, those of the invocation that was there are set aside
resume(k) ==
    /\ k \in 1 .. Len(suspended)
    /\ LET inv == suspended[k]
       IN  /\ pc' = inv.pc
           /\ file' = inv.file
           /\ bgColor' = inv.bgColor
           /\ bgCount' = inv.bgCount
           /\ filledCells' = inv.filledCells
           /\ cellsToUse' = inv.cellsToUse
           /\ detectedBounds' = inv.detectedBounds
           /\ gridBounds' = inv.gridBounds
           /\ worker' = inv.worker
           /\ ocr' = inv.ocr
           /\ i' = inv.i
           /\ cellRects' = inv.cellRects
           /\ words' = inv.words
    /\ suspended' = [suspended EXCEPT ![k] = Locals]
    /\ UNCHANGED <<boardVars, statusText, callVars>>

\* input.split(',').map(w => w.trim().toUpperCase()).filter(w => w.length > 0)
ManualWords(entries) ==
    SelectSeq([k \in DOMAIN entries |-> toUpperCase(TrimRight(TrimLeft(entries[k])))],
              LAMBDA w : Len(w) > 0)

\* The fallback of the catch block, confirmed: showManualEntry with the
\* prompt answered by `input`; a cancelled or empty prompt runs resetUpload
showManualEntry(input) ==
    /\ pc = "error"
    /\ IF "entries" \in DOMAIN input
       THEN /\ tiles' = normalizeToGrid(ManualWords(input.entries))
            /\ storage' = SavedState(tiles', scratchpad)
            /\ pc' = "entered"
            /\ UNCHANGED <<scratchpad, selectedTiles>>
       ELSE /\ tiles' = << >>
            /\ scratchpad' = EmptyScratchpad
            /\ selectedTiles' = {}
            /\ storage' = NoItem
            /\ pc' = "reset"
    /\ UNCHANGED <<file, detectVars, gridBounds, readVars, statusText, suspended,
                   callVars>>

\* The clear button: resetUpload empties the board and removes the saved
\* state; an invocation of processImage that awaits is not stopped
resetUpload ==
    /\ tiles' = << >>
    /\ scratchpad' = EmptyScratchpad
    /\ selectedTiles' = {}
    /\ storage' = NoItem
    /\ UNCHANGED <<pc, file, detectVars, gridBounds, readVars, statusText,
                   suspended, callVars>>

\* What loadSavedState leaves in state.tiles and state.scratchpad when the
\* page starts with `item` under the storage key
loadSavedState(item) ==
    IF "tiles" \in DOMAIN item /\ Len(item.tiles) > 0
    THEN [tiles |-> Parse(item.tiles),
          scratchpad |-> IF "scratchpad" \in DOMAIN item
                         THEN Parse(item.scratchpad)
                         ELSE EmptyScratchpad]
    ELSE [tiles |-> << >>, scratchpad |-> EmptyScratchpad]

\* The page is loaded anew: init() with the storage as it is
init ==
    /\ pc' = "idle"
    /\ file' = NoValue
    /\ bgColor' = NoValue
    /\ bgCount' = << >>
    /\ filledCells' = {}
    /\ cellsToUse' = {}
    /\ detectedBounds' = NoValue
    /\ gridBounds' = NoValue
    /\ worker' = NoValue
    /\ ocr' = NoValue
    /\ i' = 0
    /\ cellRects' = << >>
    /\ words' = << >>
    /\ suspended' = << >>
    /\ statusText' = ""
    /\ tiles' = loadSavedState(storage).tiles
    /\ scratchpad' = loadSavedState(storage).scratchpad
    /\ selectedTiles' = {}
    /\ UNCHANGED <<storage, callVars>>

\* A puzzle of two read words, and the same with the tile of grid slot n in
\* scratchpad slot m
PuzzleTiles == normalizeToGrid(<< << "H", "I" >>, << "G", "O" >> >>)

MovedOut(board, n, m) ==
    [tiles |-> [board.tiles EXCEPT ![n + 1] = Null],
     scratchpad |-> [board.scratchpad EXCEPT ![m + 1] = board.tiles[n + 1]]]

FullBoard == [tiles |-> PuzzleTiles, scratchpad |-> EmptyScratchpad]

\* What an earlier session can have left under the storage key
SavedItems ==
    { NoItem,
      SavedState(FullBoard.tiles, FullBoard.scratchpad),
      SavedState(MovedOut(FullBoard, 1, 0).tiles, MovedOut(FullBoard, 1, 0).scratchpad) }

\* The state after init() for each of them
InitRestored ==
    /\ NoInvocation
    /\ pc = "idle"
    /\ storage \in SavedItems
    /\ tiles = loadSavedState(storage).tiles
    /\ scratchpad = loadSavedState(storage).scratchpad
    /\ selectedTiles = {}
    /\ args = NoValue
    /\ ret = NoValue

\* A screenshot of 41 x 40 pixels, and what the recognizer reads on it:
\* nothing, or "hi" in every cell but "wo#rd!!" in the first
BoardImage ==
    Image(cellSize + 1, cellSize, Color(18, 18, 19), TileColor, 0, 0, cellSize, cellSize)

ReloadAnswers ==
    { [n \in Cells |-> NoText],
      [n \in Cells |-> IF n = 0 THEN OneWord(Text_word) ELSE OneWord(Text_hi)] }

\* What the user answers to the prompt of showManualEntry
ManualInputs ==
    { [cancelled |-> TRUE],
      [entries |-> << << " " >> >>],
      [entries |-> << << " ", "h", "i" >>, << >>, << "g", "o", " " >> >>] }

\* Images submitted one after the other, each when the one before is done
NextReload ==
    \/ \E f \in { BoardImage } : handleFile(f)
    \/ \E f \in { BoardImage } : Finished(pc) /\ handleFileAgain(f)
    \/ detectGridBounds
    \/ padAndCrop
    \/ createWorker
    \/ \E answers \in ReloadAnswers : startReading(answers)
    \/ recognize
    \/ extractTiles
    \/ \E input \in ManualInputs : showManualEntry(input)

SpecReload == InitRestored /\ [][NextReload]_vars

\* A second screenshot, of 50 x 50 pixels, and what the recognizer reads on
\* each of the two: "hi" in every cell of the first, and "wo#rd!!" in the
\* first cell of the second
SecondImage ==
    Image(cellSize + 10, cellSize + 10, Color(18, 18, 19), Color(18, 18, 19),
          0, 0, 0, 0)

AnswersFor(f) ==
    IF f.width = BoardImage.width
    THEN { [n \in Cells |-> OneWord(Text_hi)] }
    ELSE { [n \in Cells |-> IF n = 0 THEN OneWord(Text_word) ELSE OneWord(Text_hi)] }

\* A second image submitted while the first is being processed: the steps
\* of the two invocations in every order
NextRace ==
    \/ \E f \in { BoardImage } : handleFile(f)
    \/ \E f \in { SecondImage } :
          ~Finished(pc) /\ suspended = << >> /\ handleFileAgain(f)
    \/ \E k \in 1 .. Len(suspended) : resume(k)
    \/ detectGridBounds
    \/ padAndCrop
    \/ createWorker
    \/ pc = "createWorker" /\ \E answers \in AnswersFor(file) : startReading(answers)
    \/ recognize
    \/ extractTiles

SpecRace == Init /\ [][NextRace]_vars

(***************************************************************************)
(* The board: drag and drop, scratchpad, colours, selection, shuffle       *)
(***************************************************************************)
\* A slot is named as the selection keys name it: `${source}:${index}`
GridSlot(n) == << "grid", n >>
PadSlot(n) == << "scratchpad", n >>

Board == [tiles |-> tiles, scratchpad |-> scratchpad]

\* source === 'grid' ? state.tiles[index] : state.scratchpad[index]
TileAt(board, slot) ==
    IF slot[1] = "grid" THEN board.tiles[slot[2] + 1] ELSE board.scratchpad[slot[2] + 1]

Put(board, slot, tile) ==
    IF slot[1] = "grid"
    THEN [board EXCEPT !.tiles[slot[2] + 1] = tile]
    ELSE [board EXCEPT !.scratchpad[slot[2] + 1] = tile]

\* renderGrid and renderScratchpad made an element for the slot
Rendered(board, slot) ==
    IF slot[1] = "grid" THEN slot[2] < Len(board.tiles) ELSE slot[2] < Len(board.scratchpad)

\* The dragged tile written over the target, the target's tile lost
Dropped_overwrites(board, from, to) == Put(board, to, TileAt(board, from))

\* "Swap or move": the source slot takes the target's tile, then the target
\* slot takes the dragged tile
Dropped(board, from, to) ==
    LET fromTile == TileAt(board, from)
        toTile == TileAt(board, to)
    IN  Put(Put(board, from, toTile), to, fromTile)

\* The selection left where it was
MovedSelection_stays(selected, from, to) == selected

\* "Update selection to follow the tiles"
MovedSelection(selected, from, to) ==
    ((selected \ { from, to })
        \cup (IF from \in selected THEN { to } ELSE {}))
        \cup (IF to \in selected THEN { from } ELSE {})

\* What handleDrop and performSwap do alike, renderGrid and its saveState
\* included
swapOrMove(from, to) ==
    /\ Rendered(Board, from)
    /\ TileAt(Board, from) # Null
    /\ Rendered(Board, to)
    /\ from # to
    /\ LET after == Dropped(Board, from, to)
       IN  /\ tiles' = after.tiles
           /\ scratchpad' = after.scratchpad
           /\ storage' = SavedState(after.tiles, after.scratchpad)
    /\ selectedTiles' = MovedSelection(selectedTiles, from, to)
    /\ UNCHANGED <<pc, file, detectVars, gridBounds, readVars, statusText,
                   suspended, callVars>>

\* A tile dragged with the mouse from `from` and dropped on `to`
handleDrop(from, to) == swapOrMove(from, to)

\* The same by touch: handleTouchDragEnd calls performSwap
performSwap(from, to) == swapOrMove(from, to)

\* Indices of the empty grid slots, in ascending order
RECURSIVE EmptySlotsFrom(_, _)
EmptySlotsFrom(t, n) ==
    IF n >= Len(t) THEN << >>
    ELSE (IF t[n + 1] = Null THEN << n >> ELSE << >>) \o EmptySlotsFrom(t, n + 1)

\* The loop of sendScratchpadBack from scratchpad slot n on: board and
\* selection after it
RECURSIVE SendBackFrom(_, _, _, _, _)
SendBackFrom(board, selected, emptySlots, emptyIndex, n) ==
    IF n >= Len(board.scratchpad) THEN [board |-> board, selected |-> selected]
    ELSE IF board.scratchpad[n + 1] # Null /\ emptyIndex < Len(emptySlots)
    THEN LET fromKey == PadSlot(n)
             toKey == GridSlot(emptySlots[emptyIndex + 1])
         IN  SendBackFrom(
                 Put(Put(board, toKey, board.scratchpad[n + 1]), fromKey, Null),
                 IF fromKey \in selected
                 THEN (selected \ { fromKey }) \cup { toKey }
                 ELSE selected,
                 emptySlots, emptyIndex + 1, n + 1)
    ELSE SendBackFrom(board, selected, emptySlots, emptyIndex, n + 1)

sendScratchpadBack ==
    /\ Len(tiles) > 0
    /\ LET after == SendBackFrom(Board, selectedTiles, EmptySlotsFrom(tiles, 0), 0, 0)
       IN  /\ tiles' = after.board.tiles
           /\ scratchpad' = after.board.scratchpad
           /\ selectedTiles' = after.selected
           /\ storage' = SavedState(after.board.tiles, after.board.scratchpad)
    /\ UNCHANGED <<pc, file, detectVars, gridBounds, readVars, statusText,
                   suspended, callVars>>

\* The Fisher-Yates loop from index n down to 1, draws[n] being
\* Math.floor(Math.random() * (n + 1))
RECURSIVE FisherYates(_, _, _)
FisherYates(t, n, draws) ==
    IF n < 1 THEN t
    ELSE FisherYates([t EXCEPT ![n + 1] = t[draws[n] + 1], ![draws[n] + 1] = t[n + 1]],
                     n - 1, draws)

\* The shuffle button: the selected grid tiles are remembered as objects and
\* selected again where the shuffle puts them; `origin` tells for each slot
\* which slot its object was in
shuffle(draws) ==
    /\ Len(tiles) > 0
    /\ LET origin == FisherYates([k \in 1 .. Len(tiles) |-> k - 1], Len(tiles) - 1, draws)
           selectedTileObjects ==
               { key[2] : key \in { k \in selectedTiles :
                                       /\ k[1] = "grid"
                                       /\ tiles[k[2] + 1] # Null } }
       IN  /\ tiles' = FisherYates(tiles, Len(tiles) - 1, draws)
           /\ selectedTiles' =
                  { key \in selectedTiles : key[1] # "grid" }
                      \cup { GridSlot(k - 1) : k \in { m \in 1 .. Len(tiles) :
                                                origin[m] \in selectedTileObjects } }
           /\ storage' = SavedState(tiles', scratchpad)
    /\ UNCHANGED <<pc, file, detectVars, gridBounds, readVars, scratchpad,
                   statusText, suspended, callVars>>

\* tile.draftColor after a colour button
Tagged(tile, color, allSameColor) ==
    [tile EXCEPT !.draftColor = IF color = "none" \/ allSameColor THEN "null" ELSE color]

\* A colour button: the colour is set on every selected tile, or removed
\* when all of them have it already
colorBtn(color) ==
    /\ selectedTiles # {}
    /\ LET chosen == { key \in selectedTiles :
                         Rendered(Board, key) /\ TileAt(Board, key) # Null }
           allSameColor == \A key \in chosen : TileAt(Board, key).draftColor = color
       IN  /\ tiles' = [k \in 1 .. Len(tiles) |->
                           IF GridSlot(k - 1) \in chosen
                           THEN Tagged(tiles[k], color, allSameColor)
                           ELSE tiles[k]]
           /\ scratchpad' = [k \in 1 .. Len(scratchpad) |->
                                IF PadSlot(k - 1) \in chosen
                                THEN Tagged(scratchpad[k], color, allSameColor)
                                ELSE scratchpad[k]]
    /\ storage' = SavedState(tiles', scratchpad')
    /\ UNCHANGED <<pc, file, detectVars, gridBounds, readVars, selectedTiles,
                   statusText, suspended, callVars>>

\* A click on the tile of a slot toggles its selection
handleTileClick(slot) ==
    /\ Rendered(Board, slot)
    /\ TileAt(Board, slot) # Null
    /\ selectedTiles' = IF slot \in selectedTiles
                        THEN selectedTiles \ { slot }
                        ELSE selectedTiles \cup { slot }
    /\ UNCHANGED <<pc, file, detectVars, gridBounds, readVars, tiles, scratchpad,
                   storage, statusText, suspended, callVars>>

\* handleFile when the Tesseract script has not loaded: processImage throws
\* before its first await and ends in its catch block
handleFileOffline(f) ==
    /\ pc = "idle" \/ Finished(pc)
    /\ file' = f
    /\ statusText' = "Error: OCR library not loaded."
    /\ pc' = "error"
    /\ UNCHANGED <<detectVars, gridBounds, readVars, boardVars, suspended, callVars>>

\* The slots the user drags from and to and clicks on
BoardSlots ==
    { GridSlot(0), GridSlot(1), GridSlot(totalCells - 1), PadSlot(0), PadSlot(3) }

\* Draws that leave every tile in place but those of slot 15 and slot 1
ShuffleDraws ==
    { [n \in 1 .. (totalCells - 1) |->
          IF n = totalCells - 1 THEN a ELSE IF n = 1 THEN b ELSE n] :
        a \in { 0, 1, totalCells - 1 }, b \in { 0, 1 } }

ColorButtons == { "yellow", "none" }

\* The prompt cancelled, or answered with two words
TypedInputs ==
    { input \in ManualInputs : "entries" \in DOMAIN input => Len(input.entries) > 1 }

\* Swaps, shuffles and send-backs
rearrange ==
    \/ \E from \in BoardSlots, to \in BoardSlots : handleDrop(from, to)
    \/ \E from \in BoardSlots, to \in BoardSlots : performSwap(from, to)
    \/ \E draws \in ShuffleDraws : shuffle(draws)
    \/ sendScratchpadBack

NextBoard ==
    \/ rearrange
    \/ \E color \in ColorButtons : colorBtn(color)
    \/ \E slot \in BoardSlots : handleTileClick(slot)
    \/ resetUpload
    \/ init
    \/ \E f \in { BoardImage } : Len(tiles) = 0 /\ handleFileOffline(f)
    \/ \E input \in TypedInputs : showManualEntry(input)

SpecBoard == InitRestored /\ [][NextBoard]_vars

(***************************************************************************)
(* sampleBackgroundColor as a function of its arguments                    *)
(***************************************************************************)
\* Page and tile colours: two that quantize to one key, and two that do not
SamplePaints ==
    { << Color(18, 18, 19), Color(16, 16, 16) >>,
      << Color(18, 18, 19), TileColor >>,
      << Color(255, 255, 255), Color(20, 20, 20) >> }

\* Pixel buffers of up to MaxSampleW x MaxSampleH pixels, the empty ones
\* included, with the tile colour on the first or on the last columns and rows
SampleInputs ==
    UNION { { Image(w, h, paint[1], paint[2], 0, 0, a, b) :
                a \in 0 .. w, b \in 0 .. h, paint \in SamplePaints }
            \cup
            { Image(w, h, paint[1], paint[2], a, b, w, h) :
                a \in 1 .. w, b \in 1 .. h, paint \in SamplePaints } :
            w \in 0 .. MaxSampleW, h \in 0 .. MaxSampleH }

InitSample ==
    /\ Idle
    /\ pc = "callSampleBackgroundColor"
    /\ args \in SampleInputs
    /\ ret = NoValue

callSampleBackgroundColor ==
    /\ pc = "callSampleBackgroundColor"
    /\ ret' = sampleBackgroundColor(args)
    /\ pc' = "returnedSampleBackgroundColor"
    /\ UNCHANGED <<file, detectVars, gridBounds, readVars, boardVars, suspended,
                   statusText, args>>

NextSample == callSampleBackgroundColor

SpecSample == InitSample /\ [][NextSample]_vars

(***************************************************************************)
(* isDifferentFromBackground as a function of its arguments                *)
(***************************************************************************)
\* Backgrounds sampleBackgroundColor can return (channels are multiples of
\* 8): greys on both sides of brightness 0.3 and 0.7, white, and a cream
ClassifierBackgrounds ==
    { WithBrightness(Color(8 * q, 8 * q, 8 * q)) : q \in { 2, 9, 10, 16, 22, 23, 32 } }
        \cup { WithBrightness(Color(248, 240, 224)) }

ClassifierInputs ==
    { [r |-> bg.r + dr, g |-> bg.g + dg, b |-> bg.b + db, bgColor |-> bg] :
        bg \in ClassifierBackgrounds,
        dr \in (-MaxDelta) .. MaxDelta,
        dg \in (-MaxDelta) .. MaxDelta,
        db \in { -MaxDeltaB, 0, MaxDeltaB } }

\* Pixel channels are bytes
ByteInputs ==
    { a \in ClassifierInputs :
        /\ a.r \in 0 .. 255 /\ a.g \in 0 .. 255 /\ a.b \in 0 .. 255 }

InitClassify ==
    /\ Idle
    /\ pc = "call"
    /\ args \in ByteInputs
    /\ ret = NoValue

callIsDifferentFromBackground ==
    /\ pc = "call"
    /\ ret' = isDifferentFromBackground(args.r, args.g, args.b, args.bgColor)
    /\ pc' = "returned"
    /\ UNCHANGED <<file, detectVars, gridBounds, readVars, boardVars, suspended,
                   statusText, args>>

NextClassify == callIsDifferentFromBackground

SpecClassify == InitClassify /\ [][NextClassify]_vars

(***************************************************************************)
(* filterOutliers as a function of its argument                            *)
(***************************************************************************)
\* The cells of a w x h block whose first cell is (x0, y0)
Block(x0, y0, w, h) ==
    { [x |-> x, y |-> y] : x \in x0 .. (x0 + w - 1), y \in y0 .. (y0 + h - 1) }

\* The dense 10 x 4 cluster, MaxFar cells away from both axes
MainCluster == Block(MaxFar, MaxFar, 10, 4)

\* Gaps between a block and a cell off it
Gaps == { 3, 6, MaxFar }

\* Cells off a w x h block at (MaxFar, MaxFar): right of it, left of it,
\* above, below and off two corners, at each gap
IsolatedCells(w, h) ==
    UNION { { [x |-> MaxFar + w - 1 + d, y |-> MaxFar + 1],
              [x |-> MaxFar - d, y |-> MaxFar + h - 1],
              [x |-> MaxFar + 1, y |-> MaxFar - d],
              [x |-> MaxFar + w - 2, y |-> MaxFar + h - 1 + d],
              [x |-> MaxFar - d, y |-> MaxFar - d],
              [x |-> MaxFar + w - 1 + d, y |-> MaxFar + h - 1 + d] } : d \in Gaps }

\* A block with at most 3 cells off it
WithIsolated(w, h) ==
    { Block(MaxFar, MaxFar, w, h) \cup far :
        far \in { f \in SUBSET IsolatedCells(w, h) : Cardinality(f) <= 3 } }

\* The first k cells of a 3 x 3 block in row order
FirstCells(k) ==
    { c \in Block(MaxFar, MaxFar, 3, 3) : 3 * (c.y - MaxFar) + (c.x - MaxFar) < k }

\* Fewer than 10 cells: up to 9 cells of a block, or up to 8 and a cell off it
FewCells ==
    { FirstCells(k) : k \in 0 .. 9 }
        \cup { FirstCells(k) \cup { c } : k \in 0 .. 8, c \in IsolatedCells(3, 3) }

\* A 3 x 2 block in a ring of 5 cells at one gap: 11 cells, 6 of them near
\* the centre of mass
RingedBlocks ==
    { Block(MaxFar, MaxFar, 3, 2) \cup ring :
        ring \in { r \in SUBSET IsolatedCells(3, 2) :
                     /\ Cardinality(r) = 5
                     /\ \E d \in Gaps : \A c \in r :
                            \/ c.x \in { MaxFar - d, MaxFar + 2 + d }
                            \/ c.y \in { MaxFar - d, MaxFar + 1 + d } } }

FilterInputs == FewCells \cup WithIsolated(10, 4) \cup WithIsolated(4, 3) \cup RingedBlocks

InitFilter ==
    /\ Idle
    /\ pc = "callFilterOutliers"
    /\ args \in FilterInputs
    /\ ret = NoValue

callFilterOutliers ==
    /\ pc = "callFilterOutliers"
    /\ \E keptTies \in RoundingChoices(args) :
           ret' = filterOutliers(args, keptTies)
    /\ pc' = "returnedFilterOutliers"
    /\ UNCHANGED <<file, detectVars, gridBounds, readVars, boardVars, suspended,
                   statusText, args>>

NextFilter == callFilterOutliers

SpecFilter == InitFilter /\ [][NextFilter]_vars

(***************************************************************************)
(* groupIntoRows as a function of its argument                             *)
(***************************************************************************)
\* Vertical centres 100, 102, 124, 260 and 262 (in half pixels) and box
\* heights: 24 is 0.8 x 30, and 2 is more than 0.8 x 2
RowCentres == { 200, 204, 248, 520, 524 }
RowPlaces == { << c, 30 >> : c \in RowCentres } \cup { << 200, 2 >>, << 204, 2 >> }

\* The k-th word of the argument: its text is the digit k
RowWord(k, centerY, height) ==
    [text |-> << DigitChars[k + 1] >>, centerX |-> 40 * k,
     centerY |-> centerY, height |-> height]

RowInputs ==
    UNION { { [k \in 1 .. n |-> RowWord(k, place[k][1], place[k][2])] :
                place \in [1 .. n -> RowPlaces] } :
            n \in 0 .. MaxRowWords }

InitRows ==
    /\ Idle
    /\ pc = "callGroupIntoRows"
    /\ args \in RowInputs
    /\ ret = NoValue

callGroupIntoRows ==
    /\ pc = "callGroupIntoRows"
    /\ ret' = groupIntoRows(args)
    /\ pc' = "returnedGroupIntoRows"
    /\ UNCHANGED <<file, detectVars, gridBounds, readVars, boardVars, suspended,
                   statusText, args>>

NextRows == callGroupIntoRows

SpecRows == InitRows /\ [][NextRows]_vars

(***************************************************************************)
(* extractGridWords as a function of its arguments                         *)
(***************************************************************************)
\* The box the words are filtered by: [100, 500] x [100, 500]
WordBounds ==
    [x |-> 100, y |-> 100, width |-> 400, height |-> 400,
     imageWidth |-> 600, imageHeight |-> 600]

OcrWord(text, x0, y0, x1, y1) ==
    [text |-> text, confidence |-> 90,
     bbox |-> [x0 |-> x0, y0 |-> y0, x1 |-> x1, y1 |-> y1]]

\* The word in row r, column c of a page of 4 columns, 60 x 30 pixels, with
\* a two-letter text of its own; the words of a row rise from left to right
PageWord(r, c) ==
    OcrWord(<< LowerCase[r + 1], LowerCase[c + 11] >>,
            110 + 100 * c, 110 + 70 * r + 3 * (3 - c),
            170 + 100 * c, 140 + 70 * r + 3 * (3 - c))

PageLine(r, order) == [words |-> [k \in 1 .. 4 |-> PageWord(r, order[k])]]

\* The lines of a page of n rows, as printed or last row first with the
\* words of a line from right to left
PageLines(n, reversed) ==
    [k \in 1 .. n |->
        IF reversed THEN PageLine(n - k, << 3, 2, 1, 0 >>)
        ELSE PageLine(k - 1, << 0, 1, 2, 3 >>)]

\* Further words: left of the box, centred on its left border, half a pixel
\* left of it, below the box, one letter, the text "wo#rd!!" left of the
\* first column and level with row 0, a word without a box, and a word in
\* the box that is recognised twice
ExtraWords ==
    { OcrWord(<< "o", "u" >>, 20, 110, 80, 140),
      OcrWord(<< "o", "n" >>, 70, 180, 130, 210),
      OcrWord(<< "o", "f" >>, 69, 250, 130, 280),
      OcrWord(<< "l", "o" >>, 210, 490, 270, 520),
      OcrWord(Text_a, 300, 300, 310, 330),
      OcrWord(Text_word, 101, 112, 109, 142),
      [text |-> Text_go, confidence |-> 50],
      PageWord(0, 1) }

ExtractInputs ==
    { [ocrData |-> [lines |-> << [words |-> extra] >> \o PageLines(n, reversed)],
       gridBounds |-> WordBounds] :
        n \in 0 .. MaxPageRows, reversed \in BOOLEAN,
        extra \in { << >> } \cup { << w >> : w \in ExtraWords }
                    \cup { << v, w >> : v \in ExtraWords, w \in ExtraWords } }

InitExtract ==
    /\ Idle
    /\ pc = "callExtractGridWords"
    /\ args \in ExtractInputs
    /\ ret = NoValue

callExtractGridWords ==
    /\ pc = "callExtractGridWords"
    /\ ret' = extractGridWords(args.ocrData, args.gridBounds)
    /\ pc' = "returnedExtractGridWords"
    /\ UNCHANGED <<file, detectVars, gridBounds, readVars, boardVars, suspended,
                   statusText, args>>

NextExtract == callExtractGridWords

SpecExtract == InitExtract /\ [][NextExtract]_vars

(***************************************************************************)
(* normalizeToGrid as a function of its argument                           *)
(***************************************************************************)
\* Words a caller may pass: processImage passes cleaned words, and
\* showManualEntry passes trimmed, uppercased entries of any length >= 1
Vocabulary ==
    << << "H", "I" >>, << "I", "T", "'", "S" >>, << "W", "O", "R", "D", " ", "1" >>,
       << "A" >> >>

\* n words taken from the vocabulary in turn, starting after its shift-th word
WordList(n, shift) ==
    [k \in 1 .. n |-> Vocabulary[((k + shift) % Len(Vocabulary)) + 1]]

NormalizeInputs ==
    { WordList(n, shift) : n \in 0 .. MaxWords, shift \in 0 .. Len(Vocabulary) - 1 }

InitNormalize ==
    /\ Idle
    /\ pc = "callNormalizeToGrid"
    /\ args \in NormalizeInputs
    /\ ret = NoValue

callNormalizeToGrid ==
    /\ pc = "callNormalizeToGrid"
    /\ ret' = normalizeToGrid(args)
    /\ pc' = "returnedNormalizeToGrid"
    /\ UNCHANGED <<file, detectVars, gridBounds, readVars, boardVars, suspended,
                   statusText, args>>

NextNormalize == callNormalizeToGrid

SpecNormalize == InitNormalize /\ [][NextNormalize]_vars

(***************************************************************************)
(* Claims                                                                  *)
(***************************************************************************)
Detected == pc \in { "detected", "cropImage" }
Padded == pc = "cropImage"

\* The submitted image is one solid colour
Uniform(img) == img.tx0 >= img.tx1 \/ img.ty0 >= img.ty1 \/ img.tile = img.bg

\* C1: when processImage has stored its tiles, the tile at index n holds the
\* word read in cell n, and a cell without a word holds the placeholder
\* "WORD n+1" at that same index.
C1_TilesKeepReadingOrder ==
    pc = "done" =>
        \A n \in Cells :
            tiles[n + 1].word =
                IF Len(words[n + 1]) > 0 THEN words[n + 1] ELSE Placeholder(n + 1)

\* Two rectangles [x, x + w) x [y, y + h) share no point
Disjoint(a, b) ==
    \/ a.cellX + a.cellWidth <= b.cellX
    \/ b.cellX + b.cellWidth <= a.cellX
    \/ a.cellY + a.cellHeight <= b.cellY
    \/ b.cellY + b.cellHeight <= a.cellY

RECURSIVE AreaSum(_)
AreaSum(rects) ==
    IF rects = << >> THEN 0
    ELSE Head(rects).cellWidth * Head(rects).cellHeight + AreaSum(Tail(rects))

\* C2: the rectangle computed for cell n has row = floor(n / 4), col = n mod 4
\* and occupies [col W/4, (col+1) W/4) x [row H/4, (row+1) H/4) of the W x H
\* box; the 16 unshrunk rectangles are pairwise disjoint and cover the box
\* exactly (they lie in the box and their areas add up to its area).
\* Lengths are in quarter pixels: W/4 pixels are W quarter pixels.
C2_CellsTileTheBox ==
    pc \in { "recognize", "terminate", "done", "error" } =>
        /\ \A k \in 1 .. Len(cellRects) :
              LET c == cellRects[k]
                  n == k - 1
              IN  /\ c.index = n
                  /\ c.row = n \div 4
                  /\ c.col = n % 4
                  /\ c.cellX = c.col * gridBounds.width
                  /\ c.cellX + c.cellWidth = (c.col + 1) * gridBounds.width
                  /\ c.cellY = c.row * gridBounds.height
                  /\ c.cellY + c.cellHeight = (c.row + 1) * gridBounds.height
        /\ \A k1, k2 \in 1 .. Len(cellRects) :
              k1 # k2 => Disjoint(cellRects[k1], cellRects[k2])
        /\ i = totalCells =>
              /\ Len(cellRects) = totalCells
              /\ \A k \in 1 .. Len(cellRects) :
                    /\ cellRects[k].cellX >= 0
                    /\ cellRects[k].cellY >= 0
                    /\ cellRects[k].cellX + cellRects[k].cellWidth
                           <= Quarter * gridBounds.width
                    /\ cellRects[k].cellY + cellRects[k].cellHeight
                           <= Quarter * gridBounds.height
              /\ AreaSum(cellRects)
                     = (Quarter * gridBounds.width) * (Quarter * gridBounds.height)

\* All 16 rectangles were computed for a box whose width is no multiple of 4
C2_Witness ==
    /\ pc = "terminate"
    /\ Len(cellRects) = totalCells
    /\ gridBounds.width % 4 # 0
    /\ cellRects[totalCells].row = 3
    /\ cellRects[totalCells].col = 3

\* C3: when at least one coarse cell is filled, the resolved box lies inside
\* the image and is not empty.
C3_BoxInsideImage ==
    (Detected /\ filledCells # {}) =>
        /\ detectedBounds.x >= 0
        /\ detectedBounds.y >= 0
        /\ detectedBounds.width > 0
        /\ detectedBounds.height > 0
        /\ detectedBounds.x + detectedBounds.width <= file.width
        /\ detectedBounds.y + detectedBounds.height <= file.height

\* C4: the padded box is [max(0, x - 20), min(imageW, x + width + 20)) x
\* [max(0, y - 20), min(imageH, y + height + 20)) for the image's real width
\* and height.
C4_PaddedOnAllSides ==
    Padded =>
        /\ gridBounds.x = Max(0, detectedBounds.x - padding)
        /\ gridBounds.y = Max(0, detectedBounds.y - padding)
        /\ gridBounds.x + gridBounds.width
               = Min(file.width, detectedBounds.x + detectedBounds.width + padding)
        /\ gridBounds.y + gridBounds.height
               = Min(file.height, detectedBounds.y + detectedBounds.height + padding)

\* C5: gridBounds carries the width and height of the decoded image.
C5_CarriesImageSize ==
    Padded =>
        /\ gridBounds.imageWidth = file.width
        /\ gridBounds.imageHeight = file.height

\* C6: when the scan flags no cell as filled, detectGridBounds resolves to
\* the full-image box {0, 0, imageWidth, imageHeight}.
C6_EmptyScanGivesFullImage ==
    (Detected /\ filledCells = {}) =>
        /\ detectedBounds.x = 0
        /\ detectedBounds.y = 0
        /\ detectedBounds.width = file.width
        /\ detectedBounds.height = file.height

\* No cell is filled although the image shows a tile, and the full image is
\* the result
C6_Witness ==
    /\ pc = "detected"
    /\ filledCells = {}
    /\ ~Uniform(file)
    /\ file.width # file.height
    /\ detectedBounds.width = file.width
    /\ detectedBounds.height = file.height

\* C7: for a uniform image of any size the scan flags no cell and the result
\* is {0, 0, imageWidth, imageHeight}.
C7_UniformImageGivesFullImage ==
    (Detected /\ Uniform(file)) =>
        /\ filledCells = {}
        /\ detectedBounds.x = 0
        /\ detectedBounds.y = 0
        /\ detectedBounds.width = file.width
        /\ detectedBounds.height = file.height

\* C8: for an image of one solid colour C, sampleBackgroundColor returns
\* exactly C.
C8_UniformBackgroundIsExact ==
    (Detected /\ Uniform(file)) =>
        /\ bgColor.r = file.bg.r
        /\ bgColor.g = file.bg.g
        /\ bgColor.b = file.bg.b

\* C9: a coarse cell is filled iff its background pixels are fewer than 15%
\* (background brightness > 0.7) or 5% (otherwise) of the image pixels that
\* lie in the cell, partial cells on the right and bottom edges included.
C9_FilledBelowShareOfOwnPixels ==
    Detected =>
        \A cell \in LatticeCells(file) :
            cell \in filledCells <=>
                100 * bgCount[cell]
                    < (IF 10 * bgColor.brightness > 7 * LumaScale THEN 15 ELSE 5)
                        * Cardinality(CellPixels(file, cell.x, cell.y))

\* C10: isDifferentFromBackground is true iff the RGB distance exceeds T or
\* the luma difference exceeds L, with (T, L) = (12, 0.08) below brightness
\* 0.3, (25, 0.10) from 0.3 to 0.7 inclusive and (20, 0.05) above 0.7.
C10_ClassifierThresholds ==
    pc = "returned" =>
        LET bg == args.bgColor
            dark == 10 * bg.brightness < 3 * LumaScale
            light == 10 * bg.brightness > 7 * LumaScale
            T == IF dark THEN 12 ELSE IF light THEN 20 ELSE 25
            L100 == IF dark THEN 8 ELSE IF light THEN 5 ELSE 10
            d2 == (args.r - bg.r) * (args.r - bg.r)
                    + (args.g - bg.g) * (args.g - bg.g)
                    + (args.b - bg.b) * (args.b - bg.b)
            lumaDiff == Abs(Luma(Color(args.r, args.g, args.b)) - bg.brightness)
        IN  ret = (d2 > T * T \/ 100 * lumaDiff > L100 * LumaScale)

\* A pixel of a light image within distance 20 of the background is a tile
\* by its luma difference alone
C10_Witness ==
    /\ pc = "returned"
    /\ ret = TRUE
    /\ 10 * args.bgColor.brightness > 7 * LumaScale
    /\ (args.r - args.bgColor.r) * (args.r - args.bgColor.r)
         + (args.g - args.bgColor.g) * (args.g - args.bgColor.g)
         + (args.b - args.bgColor.b) * (args.b - args.bgColor.b) <= 400

\* Number of cells and coordinate sums of a set of cells
Centroid(cells) ==
    [n |-> Cardinality(cells), sx |-> SumX(cells), sy |-> SumY(cells)]

\* n^2 times the squared Euclidean distance of cell c from the centroid ctr
FromCentroid2(ctr, c) ==
    (ctr.n * c.x - ctr.sx) * (ctr.n * c.x - ctr.sx)
        + (ctr.n * c.y - ctr.sy) * (ctr.n * c.y - ctr.sy)

\* The element at index floor(n / 2) of the ascending-sorted (scaled, squared)
\* centroid distances of the cells
MedianFromCentroid2(cells) ==
    LET ctr == Centroid(cells)
        half == ctr.n \div 2
    IN  CHOOSE m \in { FromCentroid2(ctr, c) : c \in cells } :
            /\ Cardinality({ c \in cells : FromCentroid2(ctr, c) < m }) <= half
            /\ Cardinality({ c \in cells : FromCentroid2(ctr, c) <= m }) > half

\* The cells at most 2.5 times the median distance from the centroid
\* (d <= 2.5 m iff 4 d^2 <= 25 m^2)
NearCentroid(cells) ==
    LET ctr == Centroid(cells)
        m2 == MedianFromCentroid2(cells)
    IN  { c \in cells : 4 * FromCentroid2(ctr, c) <= 25 * m2 }

FilterReturned == pc = "returnedFilterOutliers"

\* C11: for 10 or more cells, when the safety valve does not trigger (the
\* cells within 2.5 times the median centroid distance are at least 60% of
\* the input), filterOutliers returns exactly those cells.
C11_KeepsCellsNearCentroid ==
    (FilterReturned /\ Cardinality(args) >= 10) =>
        LET near == NearCentroid(args)
        IN  10 * Cardinality(near) >= 6 * Cardinality(args) => ret = near

\* A cell off a block of 10 or more cells was removed
C11_Witness ==
    /\ FilterReturned
    /\ Cardinality(args) >= 10
    /\ ret # args
    /\ ret # {}
    /\ \E c \in args \ ret : c \notin MainCluster

\* The cells exactly 2.5 times the median distance from the centroid
AtThreshold(cells) ==
    LET ctr == Centroid(cells)
        m2 == MedianFromCentroid2(cells)
    IN  { c \in cells : 4 * FromCentroid2(ctr, c) = 25 * m2 }

C13_FewCellsUnchanged ==
    (FilterReturned /\ Cardinality(args) < 10) => ret = args

\* 9 cells, one of them far off the other 8, come back unchanged
C13_Witness ==
    /\ FilterReturned
    /\ Cardinality(args) = 9
    /\ NearCentroid(args) # args
    /\ ret = args

\* C14: for the dense 10 x 4 block and 3 cells off it, each farther from the
\* block's centroid than 2.5 times the block's median centroid distance,
\* filterOutliers returns exactly the 40 cells of the block.
C14_OutlierRejectionExample ==
    FilterReturned =>
        \A far \in SUBSET (args \ MainCluster) :
            ( /\ args = MainCluster \cup far
              /\ Cardinality(far) = 3
              /\ \A c \in far :
                    4 * FromCentroid2(Centroid(MainCluster), c)
                        > 25 * MedianFromCentroid2(MainCluster) )
                => ret = MainCluster

RowsReturned == pc = "returnedGroupIntoRows"

\* The rows one after the other
RECURSIVE Flatten(_)
Flatten(rows) ==
    IF rows = << >> THEN << >> ELSE Head(rows) \o Flatten(Tail(rows))

\* The row that holds the j-th word of the flattened rows
RECURSIVE RowIndexAt(_, _)
RowIndexAt(rows, j) ==
    IF j <= Len(Head(rows)) THEN 1
    ELSE 1 + RowIndexAt(Tail(rows), j - Len(Head(rows)))

\* C15: the rows of groupIntoRows, one after the other, are the input words
\* in ascending order of vertical centre, every input word once; two
\* consecutive sorted words are in the same row iff their vertical centres
\* differ by less than 0.8 times the height of the first; no row is empty.
\* (Centres are in half pixels: |dy| / 2 < 0.8 h iff 5 |dy| < 8 h.)
C15_RowsByVerticalCentre ==
    RowsReturned =>
        LET flat == Flatten(ret)
        IN  /\ \A r \in 1 .. Len(ret) : Len(ret[r]) > 0
            /\ Len(flat) = Len(args)
            /\ \A k \in 1 .. Len(args) :
                  Cardinality({ j \in 1 .. Len(flat) : flat[j] = args[k] }) = 1
            /\ \A j \in 1 .. (Len(flat) - 1) : flat[j].centerY <= flat[j + 1].centerY
            /\ \A j \in 2 .. Len(flat) :
                  (RowIndexAt(ret, j - 1) = RowIndexAt(ret, j))
                      <=> (5 * Abs(flat[j].centerY - flat[j - 1].centerY)
                              < 8 * flat[j - 1].height)

\* Words at vertical centres 260, 100, 262, 102 with height 30 each came back
\* as two rows of two
C15_Witness ==
    /\ RowsReturned
    /\ Len(args) = 4
    /\ \A k \in 1 .. 4 : args[k].height = 30
    /\ << args[1].centerY, args[2].centerY, args[3].centerY, args[4].centerY >>
           = << 520, 200, 524, 204 >>
    /\ Len(ret) = 2
    /\ Len(ret[1]) = 2
    /\ Len(ret[2]) = 2
    /\ ret[1][1].centerY = 200
    /\ ret[2][2].centerY = 524

ExtractReturned == pc = "returnedExtractGridWords"

\* The recognised words of the argument, and the box
RawWords == LineWords(args.ocrData.lines)

\* The centre of the word's box lies in the bounding box
CentreInBox(w, b) ==
    /\ "bbox" \in DOMAIN w
    /\ 2 * b.x <= w.bbox.x0 + w.bbox.x1
    /\ w.bbox.x0 + w.bbox.x1 <= 2 * (b.x + b.width)
    /\ 2 * b.y <= w.bbox.y0 + w.bbox.y1
    /\ w.bbox.y0 + w.bbox.y1 <= 2 * (b.y + b.height)

\* Positions of the recognised words that give a token (see C17) and whose
\* centre is in the box
InBoxWords ==
    { k \in 1 .. Len(RawWords) :
        /\ Len(Cleaned(RawWords[k].text)) >= 2
        /\ CentreInBox(RawWords[k], args.gridBounds) }

TokenOf(k) == toUpperCase(Cleaned(RawWords[k].text))

Occurrences(t, seq) == Cardinality({ j \in 1 .. Len(seq) : seq[j] = t })

\* <<token, row, horizontal centre>> of every word of the rows
Placed(rows) ==
    UNION { { << rows[r][j].text, r, rows[r][j].centerX >> :
                j \in 1 .. Len(rows[r]) } : r \in 1 .. Len(rows) }

\* Token t reads before token u: it is in a higher row, or in the same row
\* and further left
ReadBefore(placed, t, u) ==
    \E a \in placed, b \in placed :
        /\ a[1] = t
        /\ b[1] = u
        /\ a[2] < b[2] \/ (a[2] = b[2] /\ a[3] < b[3])

TokenChars ==
    Range(UpperCase) \cup Range(DigitChars) \cup { "'", "-" } \cup Whitespace

\* At least 2 characters, all of them token characters, none of the outer
\* ones whitespace
WellFormed(t) ==
    /\ Len(t) >= 2
    /\ \A k \in 1 .. Len(t) : t[k] \in TokenChars
    /\ t[1] \notin Whitespace
    /\ t[Len(t)] \notin Whitespace

\* C17: every word processImage takes from recognised text is empty (no
\* token) or consists only of A-Z, 0-9, apostrophe, hyphen and whitespace,
\* is trimmed and has at least 2 characters, and so has every stored tile;
\* "wo#rd!!" gives "WORD" and "a" gives no token.
C17_TokensAreNormalised ==
    /\ \A n \in 1 .. Len(words) :
          /\ words[n] = << >> \/ WellFormed(words[n])
          /\ ocr[n - 1] = OneWord(Text_word) => words[n] = << "W", "O", "R", "D" >>
          /\ ocr[n - 1] = OneWord(Text_a) => words[n] = << >>
    /\ \A k \in 1 .. Len(tiles) : WellFormed(tiles[k].word)
    /\ CellWord(OneWord(Text_a)) = << >>

\* Tiles were stored for cells that read "wo#rd!!" and the line "it's\n"
C17_Witness ==
    /\ pc = "done"
    /\ \E n \in Cells : ocr[n] = OneWord(Text_word) /\ tiles[1].word = << "W", "O", "R", "D" >>
    /\ \E n \in Cells :
          /\ ocr[n].lines # << >>
          /\ words[n + 1] = << "I", "T", "'", "S" >>

NormalizeReturned == pc = "returnedNormalizeToGrid"

\* C18: for a word list of any length n, normalizeToGrid returns 16 tiles:
\* tile i (from 0) has id i and draftColor null, its word is the input's word
\* i + 1 when i < n and the placeholder "WORD i+1" otherwise.
C18_SixteenTiles ==
    NormalizeReturned =>
        /\ Len(ret) = 16
        /\ \A n \in 0 .. 15 :
              /\ ret[n + 1].id = n
              /\ ret[n + 1].draftColor = "null"
              /\ ret[n + 1].word =
                    IF n < Len(args) THEN args[n + 1]
                    ELSE << "W", "O", "R", "D", " " >> \o Decimal(n + 1)

\* normalizeToGrid returned for more than 16 words
C18_Witness == NormalizeReturned /\ Len(args) > 16

\* C19: a processImage invocation on a file that does not decode is in its
\* error path with no tiles stored, or it can take a step; it never waits
\* with nothing left to happen.
C19_DecodeFailureSettles ==
    (pc # "idle" /\ ~Decodes(file)) =>
        \/ pc = "error" /\ tiles = << >> /\ storage = NoItem
        \/ ENABLED Next

\* Exactly one recognize call fails or never settles, and another cell
\* reads a word
OneCellFails(n) ==
    /\ ~Resolves(ocr[n])
    /\ \A m \in Cells \ { n } : Resolves(ocr[m])
    /\ \E m \in Cells \ { n } : Len(CellWord(ocr[m])) >= 2

\* C20: when the recognition of exactly one cell fails or never completes,
\* processImage does not end in its error path and does not wait at that
\* cell: the loop can go on to the other cells, the failed cell's word is
\* empty, and the run ends with 16 tiles stored.
C20_OneCellFailureIsContained ==
    \A n \in Cells :
        (pc \in { "recognize", "terminate", "done", "error" } /\ OneCellFails(n)) =>
            /\ pc # "error"
            /\ pc = "recognize" => ENABLED (recognize \/ recognizeRejects \/ extractTiles)
            /\ i > n => words[n + 1] = << >>
            /\ pc = "done" => Len(tiles) = totalCells

\* processImage has ended in its catch block because no cell gave a word
NoWordsFound == pc = "error" /\ statusText = "Error: No words found."

\* C21: a step of processImage that does not end it with success leaves
\* state.tiles and state.scratchpad as they are, so a run that ends with no
\* word in any cell leaves them as they were when it started; and once it
\* has ended so, nothing goes on but a new submission by the user or the
\* manual entry: detection and recognition are not run again.
C21_NoWordsLeavesBoard ==
    [][ /\ pc' \in { "detectGridBounds", "detected", "cropImage", "createWorker",
                     "recognize", "terminate", "error" }
            => UNCHANGED <<tiles, scratchpad>>
        /\ NoWordsFound =>
              \/ \E f \in { BoardImage } : handleFileAgain(f)
              \/ \E input \in ManualInputs : showManualEntry(input) ]_vars

\* No word was found on an image submitted over a board with a tile in the
\* scratchpad
C21_Witness ==
    /\ NoWordsFound
    /\ Len(tiles) = totalCells
    /\ \E m \in 1 .. 4 : scratchpad[m] # Null

SampleReturned == pc = "returnedSampleBackgroundColor"

\* The pixels of the image that lie in the corner region c (0 .. 3), each
\* with its place in the scan: region by region, row by row
CornerRegion(img, c) ==
    LET cx == IF c \in { 1, 3 } THEN img.width - cornerSize ELSE 0
        cy == IF c \in { 2, 3 } THEN img.height - cornerSize ELSE 0
    IN  { << x, y, (c * cornerSize + (y - cy)) * cornerSize + (x - cx) >> :
            x \in Max(0, cx) .. (Min(img.width, cx + cornerSize) - 1),
            y \in Max(0, cy) .. (Min(img.height, cy + cornerSize) - 1) }

\* Channels rounded to the nearest multiple of 8
Rounded8(c) ==
    Color(8 * ((c.r + 4) \div 8), 8 * ((c.g + 4) \div 8), 8 * ((c.b + 4) \div 8))

\* C22: sampleBackgroundColor returns the quantized colour that most samples
\* of the four corner regions have; of several colours with the most samples
\* it returns the one whose first sample comes first in the scan; without any
\* sample it returns white.
C22_MostFrequentCornerColour ==
    SampleReturned =>
        LET samples == UNION { CornerRegion(args, c) : c \in 0 .. 3 }
            colourAt(p) == Rounded8(Pixel(args, p[1], p[2]))
            count(col) == Cardinality({ p \in samples : colourAt(p) = col })
            first(col) ==
                CHOOSE n \in { p[3] : p \in { q \in samples : colourAt(q) = col } } :
                    \A p \in samples : colourAt(p) = col => n <= p[3]
            returned == Color(ret.r, ret.g, ret.b)
        IN  IF samples = {}
            THEN returned = Color(255, 255, 255)
            ELSE /\ \E p \in samples : colourAt(p) = returned
                 /\ \A p \in samples :
                       \/ colourAt(p) = returned
                       \/ count(colourAt(p)) < count(returned)
                       \/ /\ count(colourAt(p)) = count(returned)
                          /\ first(returned) < first(colourAt(p))

\* Two pixels of two colours, each sampled as often as the other: the colour
\* of the first pixel is returned
C22_Witness ==
    /\ SampleReturned
    /\ args.width = 2 /\ args.height = 1
    /\ Rounded8(Pixel(args, 0, 0)) # Rounded8(Pixel(args, 1, 0))
    /\ Color(ret.r, ret.g, ret.b) = Rounded8(Pixel(args, 0, 0))

\* The colour c of the brightness-inverted image, with its brightness
Inverted(c) == WithBrightness(Color(255 - c.r, 255 - c.g, 255 - c.b))

\* C23: the classifier gives a pixel P on a background B the verdict it
\* gives the inverted pixel 255 - P on the inverted background 255 - B.
C23_InversionKeepsVerdict ==
    (/\ pc = "returned"
     /\ args.bgColor.r <= 255 /\ args.bgColor.g <= 255 /\ args.bgColor.b <= 255) =>
        ret = isDifferentFromBackground(255 - args.r, 255 - args.g, 255 - args.b,
                                        Inverted(args.bgColor))

\* C24: for a non-empty set of filled cells filterOutliers returns a
\* non-empty subset of it, whichever way a cell at the threshold is rounded;
\* so detectGridBounds computes the box from what filterOutliers returned,
\* and the box has a first and a last cell in each direction.
C24_CellsToUseNotEmpty ==
    (FilterReturned /\ args # {}) =>
        /\ ret # {}
        /\ ret \subseteq args
        /\ \A keptTies \in RoundingChoices(args) :
              /\ filterOutliers(args, keptTies) # {}
              /\ ChooseCellsToUse(args, keptTies) = filterOutliers(args, keptTies)
        /\ \E first \in ret, last \in ret :
              \A c \in ret : first.x <= c.x /\ c.x <= last.x
        /\ \E first \in ret, last \in ret :
              \A c \in ret : first.y <= c.y /\ c.y <= last.y

\* More than 40% of 10 or more cells lay beyond the threshold, and all of
\* them came back
C24_Witness ==
    /\ FilterReturned
    /\ Cardinality(args) >= 10
    /\ \E keptTies \in RoundingChoices(args) :
          /\ WithinThreshold(args, keptTies) # args
          /\ ret = args

\* The two invocations have ended
BothFinished ==
    /\ Finished(pc)
    /\ Len(suspended) = 1
    /\ Finished(suspended[1].pc)

\* The words read by the invocation for the image submitted last
LastSubmittedWords ==
    IF file = SecondImage THEN words ELSE suspended[1].words

\* C25: when a second image was submitted while the first was being
\* processed and both invocations have ended, state.tiles holds the tiles of
\* the second image.
C25_LastSubmittedImageWins ==
    BothFinished => tiles = normalizeToGrid(ValidWords(LastSubmittedWords))

\* What tells one tile from another: its id and its word
Identity(tile) == << tile.id, tile.word >>

\* How many slots hold such a tile
TileCount(slots, ident) ==
    Cardinality({ k \in DOMAIN slots : slots[k] # Null /\ Identity(slots[k]) = ident })

\* Two sequences of as many slots hold the same multiset of tiles: a tile of
\* a slot that does not hold the same on both sides is as often in the one as
\* in the other
SameTiles(a, b) ==
    /\ Len(a) = Len(b)
    /\ \A k \in DOMAIN a :
           \/ a[k] = b[k]
           \/ \A tile \in { a[k], b[k] } \ { Null } :
                  TileCount(a, Identity(tile)) = TileCount(b, Identity(tile))

\* C26: a drag-drop swap (handleDrop, performSwap), a shuffle, a send-back
\* from the scratchpad or a colour tagging leaves the multiset of tiles held
\* in the grid slots and the scratchpad slots as it was, so no tile is lost or
\* duplicated by any sequence of them; a shuffle leaves the scratchpad as it
\* was.
C26_BoardOpsKeepTiles ==
    [][ /\ \/ SameTiles(tiles \o scratchpad, tiles' \o scratchpad')
           \/ ~(rearrange \/ \E color \in ColorButtons : colorBtn(color))
        /\ \/ scratchpad' = scratchpad
           \/ ~(\E draws \in ShuffleDraws : shuffle(draws))
      ]_vars

\* The first tile has been dragged to the last scratchpad slot, the last tile
\* shuffled or dragged to the first grid slot, and a tile is tagged
C26_Witness ==
    /\ Len(tiles) = totalCells
    /\ scratchpad[4] # Null /\ scratchpad[4].id = 0
    /\ tiles[1] # Null /\ tiles[1].id = totalCells - 1
    /\ \E k \in 1 .. totalCells : tiles[k] # Null /\ tiles[k].draftColor = "yellow"

\* The tiles the selection keys name
SelectedTileSet(board, selected) == { TileAt(board, key) : key \in selected }

\* C27: after a drag-drop swap, a shuffle or a send-back the set of selected
\* tiles is the one of before, each key naming the slot its tile is in now,
\* and no selection key names an empty slot.
C27_SelectionFollowsTiles ==
    [][ rearrange =>
            LET after == [tiles |-> tiles', scratchpad |-> scratchpad']
            IN  /\ \A key \in selectedTiles' :
                       Rendered(after, key) /\ TileAt(after, key) # Null
                /\ SelectedTileSet(after, selectedTiles')
                       = SelectedTileSet(Board, selectedTiles)
                /\ Cardinality(selectedTiles') = Cardinality(selectedTiles)
      ]_vars

\* Two tiles are selected where they were not when the board was loaded: the
\* first in the last scratchpad slot, the last in the first grid slot
C27_Witness ==
    /\ Len(tiles) = totalCells
    /\ selectedTiles = { PadSlot(3), GridSlot(0) }
    /\ scratchpad[4] # Null /\ scratchpad[4].id = 0
    /\ tiles[1] # Null /\ tiles[1].id = totalCells - 1

\* The tiles in the grid and in the scratchpad
TilesOnBoard == { k \in 1 .. Len(tiles \o scratchpad) : (tiles \o scratchpad)[k] # Null }

\* C28: after a puzzle is loaded, by processImage ending with success or by
\* manual entry, whatever the board was before, the grid and the scratchpad
\* hold exactly 16 tiles in total, with pairwise distinct ids 0..15.
C28_LoadedBoardHasSixteenTiles ==
    pc \in { "done", "entered" } =>
        LET slots == tiles \o scratchpad
        IN  /\ Cardinality(TilesOnBoard) = totalCells
            /\ { slots[k].id : k \in TilesOnBoard } = 0 .. (totalCells - 1)
            /\ \A j \in TilesOnBoard, k \in TilesOnBoard :
                   slots[j].id = slots[k].id => j = k

\* C29: whenever a puzzle is on the board, the value under the storage key
\* is the current tiles and scratchpad; when the board is emptied by
\* resetUpload the key is absent; and a fresh start, init with
\* loadSavedState, gives back the tiles and the scratchpad of the last
\* operation when the saved grid is not empty.
C29_StorageFollowsBoard ==
    [][ /\ Len(tiles') > 0 =>
               /\ "tiles" \in DOMAIN storage'
               /\ Parse(storage'.tiles) = tiles'
               /\ Parse(storage'.scratchpad) = scratchpad'
        /\ Len(tiles') = 0 => storage' = NoItem
        /\ (init /\ Len(tiles) > 0) => tiles' = tiles /\ scratchpad' = scratchpad
      ]_vars

\* A puzzle typed in by hand, then a tile tagged and one moved to the
\* scratchpad: the stored value has them
C29_Witness ==
    /\ pc = "entered"
    /\ "tiles" \in DOMAIN storage
    /\ storage.scratchpad[4] # JsonNull
    /\ \E k \in 1 .. Len(storage.tiles) :
           storage.tiles[k] # JsonNull /\ storage.tiles[k].draftColor = "yellow"
    /\ Parse(storage.scratchpad) = scratchpad

\* C30: when an invocation of processImage has finished, with success or in
\* its catch block, the worker it created, if any, is terminated.
C30_WorkerTerminated ==
    pc \in { "done", "error" } => worker \in { NoValue, "terminated" }

====
